---- MODULE Spec2Model ----
(***************************************************************************)
(* ts-to-io: generation of io-ts codec text from TypeScript declarations.  *)
(*                                                                         *)
(* The model follows getValidatorsFromString (src/src/index.ts): the       *)
(* declarations of the entry file are collected, ordered by                *)
(* topologicalSort, and rendered one by one by handleDeclaration and       *)
(* processType.  index.ts holds the module twice; line numbers are those   *)
(* of the copy that starts at line 427, and the copy that starts at line 1 *)
(* differs in processObjectType only.  Generated text is a sequence of     *)
(* tokens; Text(tokens) is the string the program returns.                 *)
(*                                                                         *)
(* The TypeScript checker is an external collaborator.  It is modelled by  *)
(* the operators of the section "checker": a type is a record carrying the *)
(* attributes the program reads (flags, symbol, aliasSymbol, member types, *)
(* printed form) and the syntax node the lazy queries (properties, index   *)
(* types, type arguments) are answered from.                               *)
(***************************************************************************)
EXTENDS Integers, Sequences, FiniteSets, TLC

VARIABLES
    program,               \* the statements the compiler knows, in source order
    build,                 \* which of the two copies of the module in index.ts is built
    driver,                \* the entry point called: "string" or "fileNames"
    config,                \* TsToIoConfig
    pc,                    \* position in getValidatorsFromString
    declarations,          \* collected declarations (indices into program), discovery order
    availableSymbols,      \* names of the collected declarations
    graph,                 \* topologicalSort: referenced name -> dependents (insertion ordered)
    inDegree,              \* topologicalSort: name -> number of unresolved dependencies
    nodeMap,               \* topologicalSort: name -> declaration
    queue,                 \* topologicalSort: Kahn queue of names
    sorted,                \* topologicalSort: result
    kahnCount,             \* topologicalSort: length of result when the Kahn loop ended
    newtypes,              \* name -> primitive kind of the newtypes to emit (insertion ordered)
    variantToBase,         \* numbered variant name -> base name
    handled,               \* newtype mode: number of sorted declarations handled so far
    processedDeclarations, \* names rendered without error
    warnings,              \* number of console.warn calls made so far
    result,                \* output fragments (token sequences)
    flagWord,              \* flags.ts: the number extractFlags is called with
    extracted,             \* flags.ts: the list extractFlags returned
    output                 \* the returned text (tokens), once pc = "done"

\* what the caller supplies
inputs == <<program, build, driver, config>>

\* the call of extractFlags
flagsTs == <<flagWord, extracted>>

\* the maps of the newtype pass
nominal == <<newtypes, variantToBase, handled>>

vars == <<inputs, flagsTs, pc, declarations, availableSymbols, graph, inDegree, nodeMap, queue, sorted,
          kahnCount, nominal, processedDeclarations, warnings, result, output>>

(***************************************************************************)
(* Generic helpers                                                         *)
(***************************************************************************)
Range(s) == {s[i] : i \in 1..Len(s)}

Contains(s, x) == \E i \in 1..Len(s) : s[i] = x

IndexOf(s, x) == IF Contains(s, x) THEN CHOOSE i \in 1..Len(s) : s[i] = x /\ \A j \in 1..(i - 1) : s[j] # x
                 ELSE 0

RECURSIVE Concat(_)
Concat(ss) == IF ss = <<>> THEN <<>> ELSE Head(ss) \o Concat(Tail(ss))

\* Array.prototype.join on fragments that are token sequences
RECURSIVE Join(_, _)
Join(parts, sep) ==
    IF parts = <<>> THEN <<>>
    ELSE IF Len(parts) = 1 THEN parts[1]
    ELSE parts[1] \o <<sep>> \o Join(Tail(parts), sep)

\* the string a token sequence stands for
RECURSIVE Text(_)
Text(tokens) == IF tokens = <<>> THEN "" ELSE Head(tokens) \o Text(Tail(tokens))

\* Map of the engine: insertion ordered
MapHas(m, key) == \E i \in 1..Len(m) : m[i].key = key
MapIdx(m, key) == CHOOSE i \in 1..Len(m) : m[i].key = key
MapGet(m, key) == m[MapIdx(m, key)].val
MapSet(m, key, val) ==
    IF MapHas(m, key) THEN [m EXCEPT ![MapIdx(m, key)].val = val]
    ELSE Append(m, [key |-> key, val |-> val])
MapKeys(m) == [i \in 1..Len(m) |-> m[i].key]

(***************************************************************************)
(* flags.ts                                                                *)
(***************************************************************************)
MAX_FLAG_COUNT == 28

\* values[i] = Math.max(1, 2 << (i - 1)): 2 << -1 is 0 in 32-bit arithmetic
FlagValue(i) == IF i = 0 THEN 1 ELSE 2 ^ i

RECURSIVE ExtractLoop(_, _, _)
ExtractLoop(input, i, flags) ==
    IF i < 0 THEN flags
    ELSE LET hit == i < MAX_FLAG_COUNT /\ input >= FlagValue(i)   \* values[28] is undefined
             rest == IF hit THEN input - FlagValue(i) ELSE input
             acc  == IF hit THEN Append(flags, FlagValue(i)) ELSE flags
         IN  IF rest = 0 THEN acc ELSE ExtractLoop(rest, i - 1, acc)

extractFlags(input) == ExtractLoop(input, MAX_FLAG_COUNT, <<>>)

(***************************************************************************)
(* ts.TypeFlags, as the type predicates name them                          *)
(***************************************************************************)
TF_Any == 1
TF_Unknown == 2
TF_String == 4
TF_Number == 8
TF_Boolean == 16
TF_StringLiteral == 128
TF_NumberLiteral == 256
TF_BooleanLiteral == 512
TF_Void == 16384
TF_Undefined == 32768
TF_Null == 65536
TF_Never == 131072
TF_Object == 524288
TF_Union == 1048576
TF_Intersection == 2097152
TF_NonPrimitive == 67108864

(***************************************************************************)
(* Syntax: type nodes and statements                                       *)
(***************************************************************************)
NoNode == [k |-> "none"]
Kw(n) == [k |-> "kw", n |-> n]
\* a literal type; value is the literal's value as text, lk its kind
Lit(lk, value) == [k |-> "lit", lk |-> lk, value |-> value]
Ref(n) == [k |-> "ref", n |-> n]                        \* TypeReferenceNode, identifier name
Arr(e) == [k |-> "arr", e |-> e]                        \* e[]
UnionNode(ts) == [k |-> "union", ts |-> ts]
InterNode(ts) == [k |-> "inter", ts |-> ts]
TupleNode(ts, rest) == [k |-> "tuple", ts |-> ts, rest |-> rest]
RecordNode(key, val) == [k |-> "record", key |-> key, val |-> val]   \* Record<key, val>
FnNode == [k |-> "fn"]                                  \* a function type
\* a property symbol: its name, whether its declaration has a question token,
\* the type node of the declaration, and whether the symbol has a
\* valueDeclaration at all
Prop(name, opt, t) == [name |-> name, opt |-> opt, t |-> t, declared |-> TRUE]

\* the property the checker synthesises for a key of a mapped type: it has no
\* valueDeclaration
Synthesised(name, t) == [Prop(name, FALSE, t) EXCEPT !.declared = FALSE]
\* a type literal / interface body: properties, index signatures, call signature
ObjNode(props, sidx, nidx, call) ==
    [k |-> "obj", props |-> props, sidx |-> sidx, nidx |-> nidx, call |-> call]
PlainObj(props) == ObjNode(props, NoNode, NoNode, FALSE)

\* a statement of a source file; parent is the index of the node whose child it
\* is, 0 for a child of the source file itself
Stmt(kind, name, body, file) ==
    [kind |-> kind, name |-> name, body |-> body, file |-> file, parent |-> 0, typed |-> TRUE]

\* the variable statement s without a type annotation: its body stands for the
\* type the checker infers from the initializer
Untyped(s) == [s EXCEPT !.typed = FALSE]

\* the same node as a child of the node at index parent
Inside(s, parent) == [s EXCEPT !.parent = parent]

DEFAULT_FILE_NAME == "io-to-ts.ts"

\* config.ts: defaultConfig
defaultConfig ==
    [followImports |-> FALSE, includeHeader |-> TRUE, fileNames |-> <<>>,
     newtypeMode |-> "none", deduplicateNewtypes |-> TRUE]

\* config.ts: getCliConfig: the options commander parses from the command
\* line, and the file arguments
getCliConfig(options, args) ==
    [followImports |-> "--follow-imports" \in options,
     includeHeader |-> "--no-include-header" \notin options,
     fileNames |-> args,
     newtypeMode |-> IF "--newtype-mode all" \in options THEN "all" ELSE "none",
     deduplicateNewtypes |-> "--no-deduplicate-newtypes" \notin options]

\* config.ts: displayHelp: the usage text of the command
displayHelp == <<"Usage: ts-to-io [options] <files>">>

(***************************************************************************)
(* checker: the attributes of a resolved type                              *)
(***************************************************************************)
MkType(sym, alias, flags, str, types, node) ==
    [sym |-> sym, alias |-> alias, flags |-> flags, str |-> str, types |-> types, node |-> node]

NoType == MkType("", "", 0, "", <<>>, NoNode)

LitFlags(lk) == IF lk = "string" THEN TF_StringLiteral
                ELSE IF lk = "number" THEN TF_NumberLiteral ELSE TF_BooleanLiteral

\* checker.typeToString of a literal type: string literals are printed quoted
LitString(node) == IF node.lk = "string" THEN "\"" \o node.value \o "\"" ELSE node.value

LitType(node) == MkType("", "", LitFlags(node.lk), LitString(node), <<>>, node)

KwFlags(n) ==
    CASE n = "any" -> TF_Any
      [] n = "unknown" -> TF_Unknown
      [] n = "string" -> TF_String
      [] n = "number" -> TF_Number
      [] n = "boolean" -> TF_Boolean + TF_Union       \* boolean is the union false | true
      [] n = "void" -> TF_Void
      [] n = "undefined" -> TF_Undefined
      [] n = "null" -> TF_Null
      [] n = "never" -> TF_Never
      [] n = "object" -> TF_NonPrimitive

KwType(n) ==
    MkType("", "", KwFlags(n), n,
           IF n = "boolean" THEN <<LitType(Lit("boolean", "false")), LitType(Lit("boolean", "true"))>>
           ELSE <<>>,
           Kw(n))

\* an unresolvable or circular reference is the checker's error type, printed "any"
ErrorType == KwType("any")

\* the order in which the checker creates its intrinsic types; union members are
\* kept sorted by creation order, every other member after the intrinsic ones
TypeRank(t) ==
    IF t.node.k = "kw" THEN
        CASE t.node.n = "any" -> 1 [] t.node.n = "unknown" -> 2 [] t.node.n = "undefined" -> 3
          [] t.node.n = "null" -> 4 [] t.node.n = "string" -> 5 [] t.node.n = "number" -> 6
          [] t.node.n = "void" -> 9 [] t.node.n = "never" -> 10 [] t.node.n = "object" -> 11
          [] OTHER -> 12
    ELSE IF t.node.k = "lit" /\ t.node.lk = "boolean" THEN (IF t.node.value = "false" THEN 7 ELSE 8)
    ELSE 12

RECURSIVE Filter(_, _)
Filter(ts, r) == IF ts = <<>> THEN <<>>
                 ELSE (IF TypeRank(Head(ts)) = r THEN <<Head(ts)>> ELSE <<>>) \o Filter(Tail(ts), r)

SortByRank(ts) == Concat([r \in 1..12 |-> Filter(ts, r)])

HasFlag(t, f) == (t.flags \div f) % 2 = 1

\* anonymous object and function types are distinct types even when they look alike
IsAnonymous(t) == t.alias = "" /\ t.sym = "__type"

RECURSIVE Dedupe(_, _)
Dedupe(ts, seen) ==
    IF ts = <<>> THEN <<>>
    ELSE IF ~IsAnonymous(Head(ts)) /\ Head(ts) \in seen THEN Dedupe(Tail(ts), seen)
    ELSE <<Head(ts)>> \o Dedupe(Tail(ts), seen \cup {Head(ts)})

RECURSIVE Flatten(_, _)
Flatten(ts, f) ==
    IF ts = <<>> THEN <<>>
    ELSE (IF HasFlag(Head(ts), f) THEN Head(ts).types ELSE <<Head(ts)>>) \o Flatten(Tail(ts), f)

RECURSIVE DropAbsorbed(_, _)
DropAbsorbed(ts, all) ==
    IF ts = <<>> THEN <<>>
    ELSE LET h == Head(ts)
             absorbed == \/ HasFlag(h, TF_Never)
                         \/ HasFlag(h, TF_StringLiteral) /\ \E o \in Range(all) : o.flags = TF_String
                         \/ HasFlag(h, TF_NumberLiteral) /\ \E o \in Range(all) : o.flags = TF_Number
         IN  (IF absorbed THEN <<>> ELSE <<h>>) \o DropAbsorbed(Tail(ts), all)

\* checker.getUnionType over resolved members
UnionOf(members, alias) ==
    LET flat == Flatten(members, TF_Union)
        kept == SortByRank(Dedupe(DropAbsorbed(flat, flat), {}))
    IN  IF \E m \in Range(flat) : HasFlag(m, TF_Any) THEN KwType("any")
        ELSE IF \E m \in Range(flat) : HasFlag(m, TF_Unknown) THEN KwType("unknown")
        ELSE IF kept = <<>> THEN KwType("never")
        ELSE IF Len(kept) = 1 THEN kept[1]
        \* the union of the two boolean literals is the boolean type
        ELSE IF Len(kept) = 2 /\ \A i \in 1..2 : HasFlag(kept[i], TF_BooleanLiteral)
             THEN (IF alias = "" THEN KwType("boolean")
                   ELSE MkType("", alias, TF_Boolean + TF_Union, alias, kept, UnionNode(<<>>)))
        ELSE MkType("", alias, TF_Union, IF alias # "" THEN alias ELSE "union", kept, UnionNode(<<>>))

\* checker.getIntersectionType over resolved object-type members
IntersectionOf(members, alias) ==
    LET kept == Dedupe(Flatten(members, TF_Intersection), {})
    IN  IF Len(kept) = 1 THEN kept[1]
        ELSE MkType("", alias, TF_Intersection, IF alias # "" THEN alias ELSE "intersection",
                    kept, InterNode(<<>>))

\* the declarations a name written at the top level of a file can denote
Declares(i, n) ==
    /\ program[i].kind \in {"alias", "var", "interface"}
    /\ program[i].parent = 0
    /\ program[i].name = n

\* the first statement that declares name n, 0 when there is none
LookupIdx(n) == IF \E i \in 1..Len(program) : Declares(i, n)
                THEN CHOOSE i \in 1..Len(program) :
                        Declares(i, n) /\ \A j \in 1..(i - 1) : ~Declares(j, n)
                ELSE 0

\* the properties of ps whose name is not among those of seen, each name once
RECURSIVE NewMembers(_, _)
NewMembers(ps, seen) ==
    IF ps = <<>> THEN seen
    ELSE NewMembers(Tail(ps),
                    IF \E j \in 1..Len(seen) : seen[j].name = Head(ps).name THEN seen
                    ELSE Append(seen, Head(ps)))

\* the interface declarations of the symbol that the interface declaration d
\* declares: the declarations of an interface name merge into one symbol when
\* the name is first declared by an interface; a declaration that conflicts
\* with an earlier declaration of another kind gets a symbol of its own
DeclarationsOfSymbol(d) ==
    IF d.parent = 0 /\ LookupIdx(d.name) # 0 /\ program[LookupIdx(d.name)].kind = "interface"
    THEN SelectSeq(program, LAMBDA s : /\ s.kind = "interface" /\ s.parent = 0
                                       /\ s.name = d.name /\ s.file = d.file)
    ELSE <<d>>

\* the members of the symbol of merged interface declarations, in the order
\* the binder meets them
RECURSIVE MergedMembers(_, _)
MergedMembers(ds, seen) ==
    IF ds = <<>> THEN seen
    ELSE MergedMembers(Tail(ds), NewMembers(Head(ds).body.props, seen))

\* the declared type of the interface that d declares, as a node
InterfaceBody(d) ==
    IF Len(DeclarationsOfSymbol(d)) <= 1 THEN d.body
    ELSE [d.body EXCEPT !.props = MergedMembers(DeclarationsOfSymbol(d), <<>>)]

\* type nodes whose type records the alias that declares them: a keyword, a
\* literal or a reference to a named type denotes that type itself
Aliasable == {"obj", "fn", "union", "inter", "arr", "tuple", "record"}

\* the type a type node denotes.  alias is the alias symbol to record (the name of
\* the type alias whose body the node is), fuel bounds chains of references
RECURSIVE Resolve(_, _, _)
Resolve(node, alias, fuel) ==
    CASE node.k = "kw" -> KwType(node.n)
      [] node.k = "lit" -> LitType(node)
      [] node.k = "ref" ->
            LET i == LookupIdx(node.n) IN
            IF i = 0 \/ fuel = 0 THEN ErrorType
            ELSE IF program[i].kind = "interface"
                 THEN MkType(node.n, "", TF_Object, node.n, <<>>, InterfaceBody(program[i]))
            ELSE IF program[i].kind = "alias"
                 THEN Resolve(program[i].body, node.n, fuel - 1)
            ELSE ErrorType                       \* a value used as a type
      [] node.k = "union" ->
            UnionOf([i \in 1..Len(node.ts) |-> Resolve(node.ts[i], "", fuel)], alias)
      [] node.k = "inter" ->
            IntersectionOf([i \in 1..Len(node.ts) |-> Resolve(node.ts[i], "", fuel)], alias)
      [] node.k = "arr" -> MkType("Array", alias, TF_Object, "array", <<>>, node)
      \* [...T[]], a rest element alone, is the array type T[]
      [] node.k = "tuple" ->
            IF node.rest /\ Len(node.ts) = 1
            THEN MkType("Array", alias, TF_Object, "array", <<>>, Arr(node.ts[1]))
            ELSE MkType("", alias, TF_Object, "tuple", <<>>, node)
      \* an instantiation of the alias Record keeps that alias unless the
      \* reference is the body of another alias
      [] node.k = "record" ->
            MkType("__type", IF alias # "" THEN alias ELSE "Record", TF_Object, "Record", <<>>, node)
      [] node.k = "fn" -> MkType("__type", alias, TF_Object, IF alias # "" THEN alias ELSE "function", <<>>, node)
      [] node.k = "obj" -> MkType("__type", alias, TF_Object, IF alias # "" THEN alias ELSE "{ }", <<>>, node)

ResolveFuel == Len(program) + 1

TypeOfNode(node) == Resolve(node, "", ResolveFuel)

\* checker.getTypeAtLocation of an interface or type alias declaration;
\* checker.getTypeOfSymbolAtLocation of the variable a variable statement declares
TypeOfDeclaration(d) ==
    IF d.kind = "interface" THEN MkType(d.name, "", TF_Object, d.name, <<>>, InterfaceBody(d))
    ELSE IF d.kind = "alias" THEN Resolve(d.body, d.name, ResolveFuel)
    ELSE TypeOfNode(d.body)

\* checker.getPropertiesOfType: property symbols in declaration order
getPropertiesOfType(type) ==
    IF type.node.k = "obj" THEN type.node.props
    ELSE IF type.node.k = "arr" THEN <<Prop("length", FALSE, Kw("number"))>>
    ELSE IF type.node.k = "record" /\ type.node.key.k = "union"      \* { [P in "a" | "b"]: V }
         THEN [i \in 1..Len(type.node.key.ts) |-> Synthesised(type.node.key.ts[i].value, type.node.val)]
    ELSE IF type.node.k = "record" /\ type.node.key.k = "lit"        \* { [P in "a"]: V }
         THEN <<Synthesised(type.node.key.value, type.node.val)>>
    ELSE <<>>

\* checker.getTypeOfSymbolAtLocation of a property: under strictNullChecks an
\* optional property has type undefined | T
TypeOfProperty(p) ==
    IF p.opt THEN UnionOf(<<KwType("undefined"), TypeOfNode(p.t)>>, "") ELSE TypeOfNode(p.t)

getStringIndexType(type) ==
    IF type.node.k = "obj" /\ type.node.sidx # NoNode THEN TypeOfNode(type.node.sidx)
    ELSE IF type.node.k = "record" /\ TypeOfNode(type.node.key).flags = TF_String
         THEN TypeOfNode(type.node.val)
    ELSE NoType

\* TypeReference.typeArguments of a tuple: the types of its elements, the type
\* of a rest element, which is the last, included
TupleElements(type) == [i \in 1..Len(type.node.ts) |-> TypeOfNode(type.node.ts[i])]

getNumberIndexType(type) ==
    IF type.node.k = "arr" THEN TypeOfNode(type.node.e)
    ELSE IF type.node.k = "tuple" THEN UnionOf(TupleElements(type), "")
    ELSE IF type.node.k = "obj" /\ type.node.nidx # NoNode THEN TypeOfNode(type.node.nidx)
    ELSE IF type.node.k = "record" /\ TypeOfNode(type.node.key).flags = TF_Number
         THEN TypeOfNode(type.node.val)
    ELSE NoType

getCallSignatures(type) ==
    IF type.node.k = "fn" \/ (type.node.k = "obj" /\ type.node.call) THEN 1 ELSE 0

\* whether the type is a reference whose target carries a boolean hasRestElement
HasTupleTarget(type) == type.node.k = "tuple"

\* TupleType.hasRestElement of the target of a tuple type reference
TargetHasRestElement(type) == type.node.rest

\* the property hasRestElement read on the type processType is given: a tuple
\* type is a reference to its target and has no such property of its own, so
\* the read gives undefined, which is falsy, whether the target has a rest
\* element or not
hasRestElement(type) == FALSE

aliasTypeArguments(type) == <<TypeOfNode(type.node.key), TypeOfNode(type.node.val)>>

(***************************************************************************)
(* type.ts: the type predicates                                            *)
(***************************************************************************)
FlagsInclude(type, flag) == Contains(extractFlags(type.flags), flag)

FlagsIncludeSome(type, flags) == \E i \in 1..Len(extractFlags(type.flags)) : extractFlags(type.flags)[i] \in flags

isObjectType(type) == FlagsInclude(type, TF_Object)

isPrimitiveType(type) ==
    FlagsIncludeSome(type, {TF_String, TF_Number, TF_Boolean, TF_Null, TF_Undefined})

isAnyOrUnknown(type) == FlagsIncludeSome(type, {TF_Any, TF_Unknown})

isVoid(type) == FlagsInclude(type, TF_Void)

isTupleType(type) == HasTupleTarget(type)

isRecordType(type) == type.alias = "Record"

isStringIndexedObjectType(type) == getStringIndexType(type) # NoType

isNumberIndexedType(type) == getNumberIndexType(type) # NoType

isArrayType(type) == type.sym = "Array"

isFunctionType(type) == getCallSignatures(type) # 0

isBasicObjectType(type) == type.str = "object"

isLiteralType(type) ==
    FlagsIncludeSome(type, {TF_StringLiteral, TF_NumberLiteral, TF_BooleanLiteral})

\* ts.Type.isUnion, isIntersection, isStringLiteral
isUnion(type) == HasFlag(type, TF_Union)
isIntersection(type) == HasFlag(type, TF_Intersection)
isStringLiteral(type) == HasFlag(type, TF_StringLiteral)

(***************************************************************************)
(* type.ts: helpers of the newtype mode                                    *)
(***************************************************************************)
\* a variant that takes a literal type for the primitive it is a literal of
getPrimitiveAliasTypeOfLiterals(d) ==
    LET type == TypeOfDeclaration(d)
    IN  IF HasFlag(type, TF_String) \/ HasFlag(type, TF_StringLiteral) THEN "string"
        ELSE IF HasFlag(type, TF_Number) \/ HasFlag(type, TF_NumberLiteral) THEN "number"
        ELSE IF HasFlag(type, TF_Boolean) \/ HasFlag(type, TF_BooleanLiteral) THEN "boolean"
        ELSE ""

\* getPrimitiveAliasType: the primitive a type alias declaration resolves to,
\* "" (undefined) when it resolves to none
getPrimitiveAliasType(d) ==
    LET type == TypeOfDeclaration(d)
    IN  IF HasFlag(type, TF_String) THEN "string"
        ELSE IF HasFlag(type, TF_Number) THEN "number"
        ELSE IF HasFlag(type, TF_Boolean) THEN "boolean"
        ELSE ""

\* getTypeReferenceName: the identifier a type reference node names, "" when
\* the node is no type reference.  Record<K, V> is a reference to the
\* identifier Record.
getTypeReferenceName(typeNode) ==
    IF typeNode.k = "ref" THEN typeNode.n
    ELSE IF typeNode.k = "record" THEN "Record"
    ELSE ""

(***************************************************************************)
(* index.ts: newtype extraction and deduplication                          *)
(***************************************************************************)
Digits == {"0", "1", "2", "3", "4", "5", "6", "7", "8", "9"}

\* the characters of a name; the names not listed are single letters
Spelling(name) ==
    CASE name = "T1" -> <<"T", "1">>
      [] name = "T2" -> <<"T", "2">>
      [] name = "T12" -> <<"T", "1", "2">>
      [] name = "U1" -> <<"U", "1">>
      [] name = "V2x" -> <<"V", "2", "x">>
      [] name = "42" -> <<"4", "2">>
      [] name = "" -> <<>>
      [] OTHER -> <<name>>

\* the characters before the decimal digits a name ends in
RECURSIVE StripDigits(_)
StripDigits(cs) ==
    IF cs # <<>> /\ cs[Len(cs)] \in Digits THEN StripDigits(SubSeq(cs, 1, Len(cs) - 1)) ELSE cs

\* parseNumberedVariant: the candidate base name of a numbered variant, "" when
\* the name does not end in a digit or has nothing before its digits
parseNumberedVariant(name) ==
    LET prefix == StripDigits(Spelling(name))
    IN  IF Len(prefix) < Len(Spelling(name)) /\ prefix # <<>> THEN Text(prefix) ELSE ""

\* a variant that records a newtype for an alias of a literal type as well
RECURSIVE extractNewtypesOfLiterals(_, _)
extractNewtypesOfLiterals(decls, map) ==
    IF decls = <<>> THEN map
    ELSE LET d == program[Head(decls)]
             kind == IF d.kind = "alias" THEN getPrimitiveAliasTypeOfLiterals(d) ELSE ""
         IN  extractNewtypesOfLiterals(Tail(decls), IF kind # "" THEN MapSet(map, d.name, kind) ELSE map)

\* extractNewtypes: name -> primitive kind of the type aliases that resolve to
\* string, number or boolean; decls are indices into the program
RECURSIVE extractNewtypes(_, _)
extractNewtypes(decls, map) ==
    IF decls = <<>> THEN map
    ELSE LET d == program[Head(decls)]
             kind == IF d.kind = "alias" THEN getPrimitiveAliasType(d) ELSE ""
         IN  extractNewtypes(Tail(decls), IF kind # "" THEN MapSet(map, d.name, kind) ELSE map)

\* the numbered variants of a candidate base among the newtypes
VariantsOf(map, base) == {n \in Range(MapKeys(map)) : parseNumberedVariant(n) = base}

\* a variant that collapses a group whatever the kinds of its variants are
CollapsesAnyKind(map, base) == MapHas(map, base)

\* a group is collapsed when a newtype has the base name and every variant has
\* the primitive kind of the base
Collapses(map, base) ==
    /\ MapHas(map, base)
    /\ \A v \in VariantsOf(map, base) : MapGet(map, v) = MapGet(map, base)

\* the newtype is a numbered variant of a group that is collapsed
IsDuplicate(map, name) ==
    parseNumberedVariant(name) # "" /\ Collapses(map, parseNumberedVariant(name))

\* a variant that also removes, unmapped, the numbered variants whose kind
\* differs from the kind of their base
RECURSIVE DeduplicateFromDroppingOthers(_, _, _)
DeduplicateFromDroppingOthers(map, i, acc) ==
    IF i > Len(map) THEN acc
    ELSE LET name == map[i].key
             base == parseNumberedVariant(name)
         IN  DeduplicateFromDroppingOthers(map, i + 1,
                IF IsDuplicate(map, name)
                THEN [acc EXCEPT !.variantToBase = MapSet(@, name, base),
                                 !.basesWithVariants = @ \cup {base}]
                ELSE IF base # "" /\ MapHas(map, base) /\ MapGet(map, base) # map[i].val
                THEN acc
                ELSE [acc EXCEPT !.newtypes = Append(@, map[i])])

\* the entries of map from entry i on, split into the variants mapped to their
\* base and the newtypes that are kept
RECURSIVE DeduplicateFrom(_, _, _)
DeduplicateFrom(map, i, acc) ==
    IF i > Len(map) THEN acc
    ELSE LET name == map[i].key IN
         DeduplicateFrom(map, i + 1,
            IF IsDuplicate(map, name)
            THEN [acc EXCEPT !.variantToBase = MapSet(@, name, parseNumberedVariant(name)),
                             !.basesWithVariants = @ \cup {parseNumberedVariant(name)}]
            ELSE [acc EXCEPT !.newtypes = Append(@, map[i])])

\* deduplicate: the variants mapped to their base, the bases that have
\* variants, and the newtype map once the variants are removed from it
deduplicate(map) ==
    DeduplicateFrom(map, 1, [variantToBase |-> <<>>, basesWithVariants |-> {}, newtypes |-> <<>>])

\* a variant that leaves every name as it is
BaseOfNothing(name) == name

\* the dedup mapping applied to a name
BaseOf(name) == IF MapHas(variantToBase, name) THEN MapGet(variantToBase, name) ELSE name

\* the primitives a preserved union may hold beside references
PrimitiveKeywords == {"string", "number", "boolean", "null", "undefined"}

\* a member of a declared union rendered by its declared name, <<>> when the
\* member is neither a reference to an available name nor a primitive
PreservedMember(node, available) ==
    IF getTypeReferenceName(node) # "" /\ BaseOf(getTypeReferenceName(node)) \in available
    THEN <<BaseOf(getTypeReferenceName(node))>>
    ELSE IF node.k = "kw" /\ node.n \in PrimitiveKeywords THEN <<"t." \o node.n>>
    ELSE <<>>

\* a variant that preserves a single reference and no union
PreservedReferenceOfSingle(node, available) ==
    IF config.newtypeMode # "all" THEN <<>>
    ELSE IF node.k = "ref" THEN PreservedMember(node, available)
    ELSE <<>>

\* member-level reference preservation: the text of a property's declared type
\* node when it is a reference to an available name, or a union of such
\* references and primitives; <<>> when the resolved type is to be rendered.
\* Under newtypeMode "none" nothing is preserved.
PreservedReference(node, available) ==
    IF config.newtypeMode # "all" THEN <<>>
    ELSE IF node.k = "ref" THEN PreservedMember(node, available)
    ELSE IF node.k = "union" /\ \A i \in 1..Len(node.ts) : PreservedMember(node.ts[i], available) # <<>>
         THEN <<"t.union", "(", "[">>
              \o Join([i \in 1..Len(node.ts) |-> PreservedMember(node.ts[i], available)], ", ")
              \o <<"]", ")">>
    ELSE <<>>

(***************************************************************************)
(* index.ts: rendering                                                     *)
(***************************************************************************)
\* the outcome of a call: the text it returns, or an exception
Ok(text) == [ok |-> TRUE, text |-> text, warn |-> 0]
Thrown == [ok |-> FALSE, text |-> <<>>, warn |-> 0]

\* outcome r of a call that made n more calls of console.warn
Warned(r, n) == [r EXCEPT !.warn = @ + n]

\* the warnings of calls made one after the other, up to the first that throws
RECURSIVE WarningsOf(_)
WarningsOf(rs) ==
    IF rs = <<>> THEN 0
    ELSE Head(rs).warn + (IF Head(rs).ok THEN WarningsOf(Tail(rs)) ELSE 0)

AllOk(rs) == \A i \in 1..Len(rs) : rs[i].ok
Texts(rs) == [i \in 1..Len(rs) |-> rs[i].text]

\* `name(open ...parts joined by sep... close)`
Combinator(name, open, rs, sep, close) ==
    Warned(IF AllOk(rs) THEN Ok(<<name, "(", open>> \o Join(Texts(rs), sep) \o <<close, ")">>)
           ELSE Thrown,
           WarningsOf(rs))

\* a variant that consults the alias symbol only
NamedReferenceByAlias(type, available) ==
    IF type.alias # "" /\ type.alias \in available THEN type.alias ELSE ""

\* the two checks processType makes first: the name to emit, "" when there is none
NamedReference(type, available) ==
    IF type.sym # "" /\ type.sym \in available THEN type.sym
    ELSE IF type.alias # "" /\ type.alias \in available THEN type.alias
    ELSE ""

\* a variant that tests for an object type before the structured object types
ClassifyObjectFirst(type) ==
    IF isLiteralType(type) THEN "literal"
    ELSE IF isPrimitiveType(type) THEN "primitive"
    ELSE IF isBasicObjectType(type) THEN "basicObject"
    ELSE IF isUnion(type) THEN "union"
    ELSE IF isIntersection(type) THEN "intersection"
    ELSE IF isObjectType(type) THEN "object"
    ELSE IF isTupleType(type) THEN "tuple"
    ELSE IF isArrayType(type) THEN "array"
    ELSE IF isRecordType(type) THEN "record"
    ELSE IF isStringIndexedObjectType(type) THEN "stringIndexed"
    ELSE IF isNumberIndexedType(type) THEN "numberIndexed"
    ELSE IF isFunctionType(type) THEN "function"
    ELSE IF isVoid(type) THEN "void"
    ELSE IF isAnyOrUnknown(type) THEN "anyOrUnknown"
    ELSE "none"

\* the branch of processType's if-chain a type takes
Classify(type) ==
    IF isLiteralType(type) THEN "literal"
    ELSE IF isPrimitiveType(type) THEN "primitive"
    ELSE IF isBasicObjectType(type) THEN "basicObject"
    ELSE IF isUnion(type) THEN "union"
    ELSE IF isIntersection(type) THEN "intersection"
    ELSE IF isTupleType(type) THEN "tuple"
    ELSE IF isArrayType(type) THEN "array"
    ELSE IF isRecordType(type) THEN "record"
    ELSE IF isStringIndexedObjectType(type) THEN "stringIndexed"
    ELSE IF isNumberIndexedType(type) THEN "numberIndexed"
    ELSE IF isFunctionType(type) THEN "function"
    ELSE IF isObjectType(type) THEN "object"
    ELSE IF isVoid(type) THEN "void"
    ELSE IF isAnyOrUnknown(type) THEN "anyOrUnknown"
    ELSE "none"

\* a variant that takes literals of every kind for string literals
isLiteralUnion(type) == \A i \in 1..Len(type.types) : isLiteralType(type.types[i])

isStringLiteralUnion(type) == \A i \in 1..Len(type.types) : isStringLiteral(type.types[i])

getOptimizedStringLiteralUnion(type) ==
    <<"t.keyof", "(", "{">>
    \o Join([i \in 1..Len(type.types) |-> <<"\"" \o type.types[i].node.value \o "\"", ": ", "null">>], ", ")
    \o <<"}", ")">>

RECURSIVE SelectProps(_, _)
SelectProps(props, opt) ==
    IF props = <<>> THEN <<>>
    ELSE (IF Head(props).opt = opt THEN <<Head(props)>> ELSE <<>>) \o SelectProps(Tail(props), opt)

\* a variant that lists a member equal to its predecessor once
MemberTypesDistinct(type) ==
    IF Len(type.types) >= 2 /\ type.types[1] = type.types[2] THEN Tail(type.types) ELSE type.types

\* the members a union or intersection combinator lists
MemberTypes(type) == type.types

\* index.ts holds the module twice: lines 1-425 and lines 427-985.  The copies
\* declare the same names, so a build contains one of them.
Builds == {"lines 1-425", "lines 427-985"}

\* the separator between the entries of an object codec
EntrySeparator == ", "

\* the separator between the required entries of the intersection form: lines
\* 49-51 interpolate the array of entries into the template, which joins them
\* with ","; lines 484-494 join them with ", "
RequiredSeparator == IF build = "lines 1-425" THEN "," ELSE EntrySeparator

RECURSIVE processType(_, _, _, _)
RECURSIVE processObjectType(_, _, _, _)

\* the entry of a property whose type was rendered as r
PropertyEntry(s, r) == IF r.ok THEN Warned(Ok(<<s.name, ": ">> \o r.text), r.warn) ELSE r

\* lines 504-512 (62-66 in the other copy): `name: ` and the codec of the
\* property's resolved type; config is not read
processProperty(s, available, processed, path) ==
    PropertyEntry(s, processType(TypeOfProperty(s), available, processed, path))

\* lines 473-482: properties.filter(...).map(processProperty(checker, availableSymbols))
ProcessProperties(props, available, processed, path) ==
    [i \in 1..Len(props) |-> processProperty(props[i], available, processed, path)]

\* lines 484-498: the codec of an object whose required properties were
\* rendered as req and whose optional properties as opt
ObjectCodec(req, opt) ==
    Warned(IF ~(AllOk(req) /\ AllOk(opt)) THEN Thrown
           ELSE IF Len(req) # 0 /\ Len(opt) # 0 THEN
               Ok(<<"t.intersection", "(", "[", "t.type", "(", "{">> \o Join(Texts(req), RequiredSeparator)
                  \o <<"}", ")", ", ", "t.partial", "(", "{">> \o Join(Texts(opt), EntrySeparator)
                  \o <<"}", ")", "]", ")">>)
           ELSE IF Len(opt) = 0 THEN
               Ok(<<"t.type", "(", "{">> \o Join(Texts(req), EntrySeparator) \o <<"}", ")">>)
           ELSE
               Ok(<<"t.partial", "(", "{">> \o Join(Texts(opt), EntrySeparator) \o <<"}", ")">>),
           WarningsOf(req \o opt))

\* lines 473-482: the filters read valueDeclaration.questionToken of every
\* property; the read throws a TypeError for a property without valueDeclaration
processObjectType(type, available, processed, path) ==
    LET properties == getPropertiesOfType(type)
        requiredProperties == SelectProps(properties, FALSE)
        optionalProperties == SelectProps(properties, TRUE)
    IN  IF \E i \in 1..Len(properties) : ~properties[i].declared THEN Thrown
        ELSE ObjectCodec(ProcessProperties(requiredProperties, available, processed, path),
                         ProcessProperties(optionalProperties, available, processed, path))

RenderAll(types, available, processed, path) ==
    [i \in 1..Len(types) |-> processType(types[i], available, processed, path)]

\* `prefix e)` for the rendering e of an element type
Wrapped(prefix, e) == IF e.ok THEN Warned(Ok(prefix \o e.text \o <<")">>), e.warn) ELSE e

\* `t.record(key, value)` for the renderings kv of the two type arguments
RecordCodec(kv) ==
    Warned(IF AllOk(kv) THEN Ok(<<"t.record", "(">> \o kv[1].text \o <<", ">> \o kv[2].text \o <<")">>)
           ELSE Thrown,
           WarningsOf(kv))

\* the body of processType for a type whose named reference is name ("" when
\* it has none) and whose category is c
RenderAs(name, c, type, available, processed, path) ==
    IF name # "" THEN Ok(<<name>>) ELSE
    CASE c = "literal" -> Ok(<<"t.literal", "(", type.str, ")">>)
      [] c = "primitive" -> Ok(<<"t." \o type.str>>)
      [] c = "basicObject" -> Ok(<<"t.type", "(", "{", "}", ")">>)
      [] c = "union" ->
            IF isStringLiteralUnion(type) THEN Ok(getOptimizedStringLiteralUnion(type))
            ELSE Combinator("t.union", "[", RenderAll(MemberTypes(type), available, processed, path), ", ", "]")
      [] c = "intersection" ->
            Combinator("t.intersection", "[", RenderAll(MemberTypes(type), available, processed, path), ", ", "]")
      [] c = "tuple" ->
            \* console.warn when type.hasRestElement is truthy, then every type argument
            Warned(Combinator("t.tuple", "[", RenderAll(TupleElements(type), available, processed, path), ",", "]"),
                   IF hasRestElement(type) THEN 1 ELSE 0)
      [] c = "array" ->
            Wrapped(<<"t.array", "(">>, processType(getNumberIndexType(type), available, processed, path))
      [] c = "record" -> RecordCodec(RenderAll(aliasTypeArguments(type), available, processed, path))
      [] c = "stringIndexed" ->
            Wrapped(<<"t.record", "(", "t.string", ", ">>,
                    processType(getStringIndexType(type), available, processed, path))
      [] c = "numberIndexed" ->
            Wrapped(<<"t.record", "(", "t.number", ", ">>,
                    processType(getNumberIndexType(type), available, processed, path))
      [] c = "function" -> Ok(<<"t.Function">>)
      [] c = "object" -> processObjectType(type, available, processed, path)
      [] c = "void" -> Ok(<<"t.void">>)
      [] c = "anyOrUnknown" -> Ok(<<"t.unknown">>)
      [] OTHER -> Thrown                   \* Error("Unknown type with type flags: ...")

\* the categories whose branch of processType calls processType again
Composite == {"union", "intersection", "tuple", "array", "record", "stringIndexed", "numberIndexed",
              "object"}

\* a variant that emits the name of a declaration only once the declaration is
\* in processedDeclarations
processTypeOfProcessed(type, available, processed, path) ==
    IF NamedReference(type, available \cap processed) = "" /\ Classify(type) \in Composite /\ type \in path
    THEN Thrown
    ELSE RenderAs(NamedReference(type, available \cap processed), Classify(type), type,
                  available, processed, path \cup {type})

\* lines 518-595: processed is the processedDeclarations the caller hands over;
\* every nested call receives it and no line reads it.  path holds the types
\* whose processType frames are on the call stack.  The call is a function of
\* the type and the reference set alone, so a composite type that comes up
\* again below its own frame recurses without end: the engine's call stack is
\* exhausted and a RangeError is thrown
processType(type, available, processed, path) ==
    IF NamedReference(type, available) = "" /\ Classify(type) \in Composite /\ type \in path
    THEN Thrown
    ELSE RenderAs(NamedReference(type, available), Classify(type), type, available, processed, path \cup {type})

\* a variant that hands the shared availableSymbols to processType
HandleOutcomeWithOwnName(d, available, processed) ==
    IF d.name = "" THEN Thrown
    ELSE processType(TypeOfDeclaration(d), available, processed, {})

\* handleDeclaration: the fragment for one declaration, and whether it was rendered
HandleOutcome(d, available, processed) ==
    IF d.name = "" THEN Thrown                 \* symbol is undefined: symbol!.valueDeclaration throws
    ELSE processType(TypeOfDeclaration(d), available \ {d.name}, processed, {})

\* a variant that has lost the symbol when the exception is caught
ErrorMarkerUnnamed(d) == <<"// Error: Failed to generate a codec for ", "">>

ErrorMarker(d) == <<"// Error: Failed to generate a codec for ", d.name>>

\* the fragment handleDeclaration returns when the translation ended as r
Fragment(d, r) == IF r.ok THEN <<"const ", d.name, " = ">> \o r.text ELSE ErrorMarker(d)

handleDeclaration(d, available, processed) == Fragment(d, HandleOutcome(d, available, processed))

(***************************************************************************)
(* index.ts: rendering in the newtype mode                                 *)
(*                                                                         *)
(* The module with the newtype mode renders a type as processType does,    *)
(* except for the properties of an object: the declared names of a         *)
(* property's type node are kept when reference preservation applies.      *)
(***************************************************************************)
RECURSIVE processTypeNominal(_, _, _, _)

\* the declared names when reference preservation applies, the rendering r of
\* the resolved type otherwise
PreservedOr(preserved, r) == IF preserved # <<>> THEN Ok(preserved) ELSE r

\* processProperty in the newtype mode
processPropertyNominal(s, available, processed, path) ==
    PropertyEntry(s, PreservedOr(PreservedReference(s.t, available),
                                 processTypeNominal(TypeOfProperty(s), available, processed, path)))

ProcessPropertiesNominal(props, available, processed, path) ==
    [i \in 1..Len(props) |-> processPropertyNominal(props[i], available, processed, path)]

\* processObjectType in the newtype mode
processObjectTypeNominal(type, available, processed, path) ==
    LET properties == getPropertiesOfType(type)
        requiredProperties == SelectProps(properties, FALSE)
        optionalProperties == SelectProps(properties, TRUE)
    IN  IF \E i \in 1..Len(properties) : ~properties[i].declared THEN Thrown
        ELSE ObjectCodec(ProcessPropertiesNominal(requiredProperties, available, processed, path),
                         ProcessPropertiesNominal(optionalProperties, available, processed, path))

RenderAllNominal(types, available, processed, path) ==
    [i \in 1..Len(types) |-> processTypeNominal(types[i], available, processed, path)]

\* the body of processType in the newtype mode: the branches of RenderAs,
\* their parts rendered in the newtype mode
RenderAsNominal(name, c, type, available, processed, path) ==
    IF name # "" THEN Ok(<<name>>) ELSE
    CASE c = "literal" -> Ok(<<"t.literal", "(", type.str, ")">>)
      [] c = "primitive" -> Ok(<<"t." \o type.str>>)
      [] c = "basicObject" -> Ok(<<"t.type", "(", "{", "}", ")">>)
      [] c = "union" ->
            IF isStringLiteralUnion(type) THEN Ok(getOptimizedStringLiteralUnion(type))
            ELSE Combinator("t.union", "[", RenderAllNominal(MemberTypes(type), available, processed, path), ", ", "]")
      [] c = "intersection" ->
            Combinator("t.intersection", "[", RenderAllNominal(MemberTypes(type), available, processed, path), ", ", "]")
      [] c = "tuple" ->
            \* console.warn when type.hasRestElement is truthy, then every type argument
            Warned(Combinator("t.tuple", "[", RenderAllNominal(TupleElements(type), available, processed, path), ",", "]"),
                   IF hasRestElement(type) THEN 1 ELSE 0)
      [] c = "array" ->
            Wrapped(<<"t.array", "(">>, processTypeNominal(getNumberIndexType(type), available, processed, path))
      [] c = "record" -> RecordCodec(RenderAllNominal(aliasTypeArguments(type), available, processed, path))
      [] c = "stringIndexed" ->
            Wrapped(<<"t.record", "(", "t.string", ", ">>,
                    processTypeNominal(getStringIndexType(type), available, processed, path))
      [] c = "numberIndexed" ->
            Wrapped(<<"t.record", "(", "t.number", ", ">>,
                    processTypeNominal(getNumberIndexType(type), available, processed, path))
      [] c = "function" -> Ok(<<"t.Function">>)
      [] c = "object" -> processObjectTypeNominal(type, available, processed, path)
      [] c = "void" -> Ok(<<"t.void">>)
      [] c = "anyOrUnknown" -> Ok(<<"t.unknown">>)
      [] OTHER -> Thrown                   \* Error("Unknown type with type flags: ...")

\* processType in the newtype mode
processTypeNominal(type, available, processed, path) ==
    IF NamedReference(type, available) = "" /\ Classify(type) \in Composite /\ type \in path
    THEN Thrown
    ELSE RenderAsNominal(NamedReference(type, available), Classify(type), type, available, processed, path \cup {type})

\* handleDeclaration in the newtype mode: the outcome of rendering the codec
HandleOutcomeNominal(d, available, processed) ==
    IF d.name = "" THEN Thrown
    ELSE processTypeNominal(TypeOfDeclaration(d), available \ {d.name}, processed, {})

\* a variant whose constructor is the primitive codec itself
ScaffoldUnbranded(name, kind) ==
    <<"export interface ", name, " extends Newtype<{ readonly ", name, ": unique symbol }, ", kind, "> {}",
      "\n", "export const ", name, " = ", "t." \o kind,
      "\n", "export const ", "iso" \o name, " = iso<", name, ">()">>

\* the three lines emitted for a newtype
Scaffold(name, kind) ==
    <<"export interface ", name, " extends Newtype<{ readonly ", name, ": unique symbol }, ", kind, "> {}",
      "\n", "export const ", name, " = fromNewtype<", name, ">(", "t." \o kind, ")",
      "\n", "export const ", "iso" \o name, " = iso<", name, ">()">>

\* handleDeclaration in newtype mode: the fragments a declaration adds to the
\* result: none for a deduplicated variant, the scaffold for a newtype, and the
\* codec binding or error marker of the rendering r otherwise
NominalFragments(d, r) ==
    IF MapHas(variantToBase, d.name) THEN <<>>
    ELSE IF d.kind = "alias" /\ MapHas(newtypes, d.name)
         THEN <<Scaffold(d.name, MapGet(newtypes, d.name))>>
    ELSE <<Fragment(d, r)>>

\* the declaration is a deduplicated variant or a newtype: no codec is rendered
IsNominal(d) == MapHas(variantToBase, d.name) \/ (d.kind = "alias" /\ MapHas(newtypes, d.name))

(***************************************************************************)
(* Set of the engine: insertion ordered                                    *)
(***************************************************************************)
SetAdd(s, x) == IF Contains(s, x) THEN s ELSE Append(s, x)

RECURSIVE SetAddAll(_, _)
SetAddAll(s, xs) == IF xs = <<>> THEN s ELSE SetAddAll(SetAdd(s, Head(xs)), Tail(xs))

RECURSIVE Without(_, _)
Without(s, x) == IF s = <<>> THEN <<>>
                 ELSE (IF Head(s) = x THEN <<>> ELSE <<Head(s)>>) \o Without(Tail(s), x)

RECURSIVE Within(_, _)
Within(s, set) == IF s = <<>> THEN <<>>
                  ELSE (IF Head(s) \in set THEN <<Head(s)>> ELSE <<>>) \o Within(Tail(s), set)

(***************************************************************************)
(* index.ts: collectTypeReferences                                         *)
(***************************************************************************)
\* the identifiers of the TypeReferenceNodes below a type node, in visiting order.
\* Record<K, V> is itself a reference to the identifier Record.
RECURSIVE NodeReferences(_)
NodeReferences(node) ==
    CASE node.k = "ref" -> <<node.n>>
      [] node.k = "arr" -> NodeReferences(node.e)
      [] node.k \in {"union", "inter", "tuple"} ->
            Concat([i \in 1..Len(node.ts) |-> NodeReferences(node.ts[i])])
      [] node.k = "record" -> <<"Record">> \o NodeReferences(node.key) \o NodeReferences(node.val)
      [] node.k = "obj" ->
            Concat([i \in 1..Len(node.props) |-> NodeReferences(node.props[i].t)])
            \o NodeReferences(node.sidx) \o NodeReferences(node.nidx)
      [] OTHER -> <<>>

\* a declaration without a type annotation has no type node to visit
collectTypeReferences(d) == IF d.typed THEN SetAddAll(<<>>, NodeReferences(d.body)) ELSE <<>>

(***************************************************************************)
(* index.ts: collectDeclarations                                           *)
(***************************************************************************)
DeclarationKinds == {"alias", "var", "interface"}

\* the children ts.forEachChild visits, in source order: the nodes of the file
\* whose parent is the node at index parent (the source file when parent = 0)
forEachChild(file, parent) ==
    SelectSeq([j \in 1..Len(program) |-> j],
              LAMBDA j : program[j].file = file /\ program[j].parent = parent)

\* collectDeclarations(config, declarations) applied to the nodes in work one
\* after the other; the visit of a module declaration is the visit of its
\* children, which comes before the visit of the nodes that follow it
RECURSIVE collectDeclarations(_, _, _)
collectDeclarations(cfg, decls, work) ==
    IF work = <<>> THEN decls
    ELSE LET i == Head(work) IN
         IF ~cfg.followImports /\ ~Contains(cfg.fileNames, program[i].file)
         THEN collectDeclarations(cfg, decls, Tail(work))
         ELSE IF program[i].kind \in DeclarationKinds
         THEN collectDeclarations(cfg, Append(decls, i), Tail(work))
         ELSE IF program[i].kind = "module"
         THEN collectDeclarations(cfg, decls, forEachChild(program[i].file, i) \o Tail(work))
         ELSE collectDeclarations(cfg, decls, Tail(work))

LIB_FILE_NAME == "lib.ts"
GLOBALS_FILE_NAME == "globals.d.ts"

\* program.getSourceFiles(): a file comes after the files it imports
getSourceFiles == <<GLOBALS_FILE_NAME, LIB_FILE_NAME, DEFAULT_FILE_NAME>>

isDeclarationFile(file) == file = GLOBALS_FILE_NAME

\* lines 938-945: the loop of getValidatorsFromFileNames over the source files
RECURSIVE CollectFiles(_, _, _)
CollectFiles(cfg, decls, files) ==
    IF files = <<>> THEN decls
    ELSE CollectFiles(cfg,
                      IF ~isDeclarationFile(Head(files))
                      THEN collectDeclarations(cfg, decls, forEachChild(Head(files), 0)) ELSE decls,
                      Tail(files))

\* the collection of each entry point: getValidatorsFromString walks the
\* source file DEFAULT_FILE_NAME (lines 877-880)
CollectFrom(cfg, drv) ==
    IF drv = "string" THEN collectDeclarations(cfg, <<>>, forEachChild(DEFAULT_FILE_NAME, 0))
    ELSE CollectFiles(cfg, <<>>, getSourceFiles)

\* the names of the collected declarations
SymbolNames(decls) == {program[decls[i]].name : i \in 1..Len(decls)} \ {""}

(***************************************************************************)
(* index.ts: topologicalSort                                               *)
(***************************************************************************)
\* a variant that records the edge symbolName -> dep, dependent first
RECURSIVE AddEdgesForward(_, _, _)
AddEdgesForward(g, deps, symbolName) ==
    IF deps = <<>> THEN g
    ELSE LET dep == Head(deps)
             g1 == IF MapHas(g, symbolName) THEN g ELSE MapSet(g, symbolName, <<>>)
         IN  AddEdgesForward(MapSet(g1, symbolName, SetAdd(MapGet(g1, symbolName), dep)), Tail(deps), symbolName)

\* filteredDeps.forEach: record the edge dep -> symbolName
RECURSIVE AddEdges(_, _, _)
AddEdges(g, deps, symbolName) ==
    IF deps = <<>> THEN g
    ELSE LET dep == Head(deps)
             g1 == IF MapHas(g, dep) THEN g ELSE MapSet(g, dep, <<>>)
         IN  AddEdges(MapSet(g1, dep, SetAdd(MapGet(g1, dep), symbolName)), Tail(deps), symbolName)

\* a variant that keeps the reference of a declaration to its own name
FilteredDepsWithSelf(d, available) == Within(collectTypeReferences(d), available)

\* the dependencies of a declaration that become edges
FilteredDeps(d, available) == Within(Without(collectTypeReferences(d), d.name), available)

\* a variant whose nodeMap keeps the first declaration of a name
RECURSIVE BuildFromKeepingFirst(_, _, _, _, _, _)
BuildFromKeepingFirst(decls, available, i, g, deg, nm) ==
    IF i > Len(decls) THEN [graph |-> g, inDegree |-> deg, nodeMap |-> nm]
    ELSE LET d == program[decls[i]]
             symbolName == d.name
         IN  IF symbolName = "" THEN BuildFromKeepingFirst(decls, available, i + 1, g, deg, nm)
             ELSE LET g1 == IF MapHas(g, symbolName) THEN g ELSE MapSet(g, symbolName, <<>>)
                  IN  BuildFromKeepingFirst(decls, available, i + 1,
                                            AddEdges(g1, FilteredDeps(d, available), symbolName),
                                            MapSet(deg, symbolName, 0),
                                            IF MapHas(nm, symbolName) THEN nm
                                            ELSE MapSet(nm, symbolName, decls[i]))

\* declarations.forEach of the graph construction, from declaration i on
RECURSIVE BuildFrom(_, _, _, _, _, _)
BuildFrom(decls, available, i, g, deg, nm) ==
    IF i > Len(decls) THEN [graph |-> g, inDegree |-> deg, nodeMap |-> nm]
    ELSE LET d == program[decls[i]]
             symbolName == d.name
         IN  IF symbolName = "" THEN BuildFrom(decls, available, i + 1, g, deg, nm)
             ELSE LET g1 == IF MapHas(g, symbolName) THEN g ELSE MapSet(g, symbolName, <<>>)
                  IN  BuildFrom(decls, available, i + 1,
                                AddEdges(g1, FilteredDeps(d, available), symbolName),
                                MapSet(deg, symbolName, 0),
                                MapSet(nm, symbolName, decls[i]))

RECURSIVE CountEdges(_, _)
CountEdges(deg, deps) ==
    IF deps = <<>> THEN deg
    ELSE CountEdges(IF MapHas(deg, Head(deps))
                    THEN MapSet(deg, Head(deps), MapGet(deg, Head(deps)) + 1) ELSE deg,
                    Tail(deps))

\* graph.forEach of the in-degree calculation, from entry i on
RECURSIVE CalculateInDegrees(_, _, _)
CalculateInDegrees(g, deg, i) ==
    IF i > Len(g) THEN deg ELSE CalculateInDegrees(g, CountEdges(deg, g[i].val), i + 1)

\* inDegree.forEach: the names with no incoming edge, in insertion order
RECURSIVE ZeroDegree(_)
ZeroDegree(deg) ==
    IF deg = <<>> THEN <<>>
    ELSE (IF Head(deg).val = 0 THEN <<Head(deg).key>> ELSE <<>>) \o ZeroDegree(Tail(deg))

\* a variant that puts a declaration that became ready at the head of the queue
RECURSIVE ReduceInDegreesLastInFirstOut(_, _, _)
ReduceInDegreesLastInFirstOut(deg, q, deps) ==
    IF deps = <<>> THEN [inDegree |-> deg, queue |-> q]
    ELSE LET dep == Head(deps)
             newDegree == (IF MapHas(deg, dep) THEN MapGet(deg, dep) ELSE 0) - 1
         IN  ReduceInDegreesLastInFirstOut(MapSet(deg, dep, newDegree),
                                           IF newDegree = 0 THEN <<dep>> \o q ELSE q,
                                           Tail(deps))

\* deps.forEach of one iteration of the Kahn loop
RECURSIVE ReduceInDegrees(_, _, _)
ReduceInDegrees(deg, q, deps) ==
    IF deps = <<>> THEN [inDegree |-> deg, queue |-> q]
    ELSE LET dep == Head(deps)
             newDegree == (IF MapHas(deg, dep) THEN MapGet(deg, dep) ELSE 0) - 1
         IN  ReduceInDegrees(MapSet(deg, dep, newDegree),
                             IF newDegree = 0 THEN Append(q, dep) ELSE q,
                             Tail(deps))

\* a variant that returns what the Kahn loop produced and nothing else
AppendNothing(res, decls) == res

\* a variant that walks the declarations from the last to the first
RECURSIVE AppendMissingBackwards(_, _)
AppendMissingBackwards(res, decls) ==
    IF decls = <<>> THEN res
    ELSE AppendMissingBackwards(IF Contains(res, decls[Len(decls)]) THEN res
                                ELSE Append(res, decls[Len(decls)]),
                                SubSeq(decls, 1, Len(decls) - 1))

\* the final declarations.forEach: what the Kahn loop left out, in discovery order
RECURSIVE AppendMissing(_, _)
AppendMissing(res, decls) ==
    IF decls = <<>> THEN res
    ELSE AppendMissing(IF Contains(res, Head(decls)) THEN res ELSE Append(res, Head(decls)), Tail(decls))

getImports == <<"import * as t from \"io-ts\"">>

\* the import lines added to the header when newtypes are generated
getNewtypeImports ==
    <<"\n", "import { fromNewtype } from \"io-ts-types/lib/fromNewtype\"",
      "\n", "import { Newtype, iso } from \"newtype-ts\"">>

(***************************************************************************)
(* Inputs                                                                  *)
(***************************************************************************)
MaxDecls == 3          \* declarations of a generated entry file
MaxMembers == 3        \* members of a generated union, intersection or tuple
MaxProps == 3          \* properties of a generated object type

\* an interface of an imported file
LibU == Stmt("interface", "U", PlainObj(<<Prop("u", FALSE, Kw("null"))>>), LIB_FILE_NAME)

NameAt == <<"A", "B", "C", "D", "E">>
RefNames == <<"A", "B", "C">>
PropNames == <<"a", "b", "c">>

\* one property per referenced name
RECURSIVE RefProps(_, _)
RefProps(R, i) ==
    IF i > Len(RefNames) THEN <<>>
    ELSE (IF RefNames[i] \in R THEN <<Prop(PropNames[i], FALSE, Ref(RefNames[i]))>> ELSE <<>>)
         \o RefProps(R, i + 1)

\* the statements tried at position i of a generated entry file
StatementPool(i) ==
    {Stmt("interface", NameAt[i], PlainObj(RefProps(R, 1)), DEFAULT_FILE_NAME) : R \in SUBSET Range(RefNames)}
    \cup {Stmt("alias", NameAt[i], Kw("never"), DEFAULT_FILE_NAME)}
    \cup (IF i <= 2 THEN {Stmt("alias", NameAt[i], Arr(Ref("B")), DEFAULT_FILE_NAME)} ELSE {})
    \cup (IF i <= 3 THEN {Stmt("var", "", NoNode, DEFAULT_FILE_NAME)} ELSE {})
    \cup (IF i \in {2, 3} THEN {Stmt("interface", "A", PlainObj(<<Prop("c", FALSE, Ref("C"))>>), DEFAULT_FILE_NAME)}
          ELSE {})

RECURSIVE FilesOfLength(_)
FilesOfLength(n) ==
    IF n = 0 THEN {<<>>}
    ELSE {Append(f, s) : f \in FilesOfLength(n - 1), s \in StatementPool(n)}

\* entry files whose declarations reference each other in every way
GraphPrograms == {f \o <<LibU>> : f \in UNION {FilesOfLength(n) : n \in 0..MaxDecls}}

\* the declarations around the declaration X whose type is varied
EnvP == Stmt("interface", "P", PlainObj(<<Prop("name", FALSE, Kw("string"))>>), DEFAULT_FILE_NAME)
EnvQ == Stmt("alias", "Q", PlainObj(<<Prop("id", FALSE, Kw("number"))>>), DEFAULT_FILE_NAME)
EnvS == Stmt("alias", "S", Kw("string"), DEFAULT_FILE_NAME)

ObjA == PlainObj(<<Prop("a", FALSE, Kw("string"))>>)

Keywords == {"any", "unknown", "string", "number", "boolean", "void", "undefined", "null", "never", "object"}

AtomNodes ==
    {Kw(n) : n \in Keywords}
    \cup {Lit("string", "foo"), Lit("number", "1"), Lit("boolean", "false"), Lit("boolean", "true")}
    \cup {Ref(n) : n \in {"P", "Q", "S", "U", "X", "Z"}}
    \cup {FnNode}

\* member nodes, the intrinsic ones first
MemberNodes == <<Kw("null"), Kw("string"), Ref("P"), Ref("Q"),
                 Lit("string", "foo"), Lit("string", "bar"), Arr(Ref("P")), ObjA>>

RECURSIVE SeqsOver(_, _)
SeqsOver(S, n) == IF n = 0 THEN {<<>>} ELSE {Append(s, x) : s \in SeqsOver(S, n - 1), x \in S}

SeqsUpTo(S, lo, hi) == UNION {SeqsOver(S, n) : n \in lo..hi}

\* The checker keeps union members in the order it created their types: P and Q,
\* rendered before X, come before the members X's own declaration introduces.
\* Only unions written in that order are generated, so that the member order of
\* the resolved union is the written one up to the intrinsic members.
CreationRank(node) == IF node = Ref("P") THEN 1 ELSE IF node = Ref("Q") THEN 2
                      ELSE IF node.k = "kw" THEN 0 ELSE 3

InCreationOrder(ts) ==
    \A i, j \in 1..Len(ts) :
        i < j => /\ (CreationRank(ts[i]) = 0 \/ CreationRank(ts[j]) = 0 \/ CreationRank(ts[i]) <= CreationRank(ts[j]))
                 /\ (ts[i] = ts[j] => ts[i] = ObjA)

UnionNodes == {UnionNode(ts) : ts \in {u \in SeqsUpTo(Range(MemberNodes), 2, MaxMembers) : InCreationOrder(u)}}

\* unions of literals of more than one kind, and unions that hold boolean
LiteralUnionNodes ==
    {UnionNode(<<Lit("string", "foo"), Lit("number", "1")>>),
     UnionNode(<<Lit("number", "1"), Lit("number", "2")>>),
     UnionNode(<<Kw("null"), Kw("boolean")>>),
     UnionNode(<<Lit("boolean", "false"), Lit("boolean", "true")>>)}

ObjectMemberNodes == {Ref("P"), Ref("Q"), ObjA}

InterNodes == {InterNode(ts) : ts \in {u \in SeqsUpTo(ObjectMemberNodes, 2, MaxMembers) :
                                          \A i, j \in 1..Len(u) : (i < j /\ u[i] = u[j]) => u[i] = ObjA}}

TupleNodes == {TupleNode(ts, rest) : ts \in SeqsUpTo({Kw("string"), Kw("number"), Ref("P")}, 1, MaxMembers),
                                     rest \in BOOLEAN}

RecordNodes == {RecordNode(key, val) :
                    key \in {Kw("string"), Kw("number"), UnionNode(<<Lit("string", "foo"), Lit("string", "bar")>>)},
                    val \in {Kw("string"), Kw("null"), Ref("P")}}

ArrayNodes == {Arr(e) : e \in Range(MemberNodes) \cup {Kw("number"), Ref("U"), Ref("X"), Ref("S")}}

PropertyNames == <<"foo", "bar", "baz", "qux", "quux">>
PropertyTypes == {Kw("string"), Ref("P")}

RECURSIVE PropLists(_)
PropLists(n) ==
    IF n = 0 THEN {<<>>}
    ELSE {Append(ps, Prop(PropertyNames[n], opt, t)) : ps \in PropLists(n - 1), opt \in BOOLEAN, t \in PropertyTypes}

PlainObjNodes == {PlainObj(ps) : ps \in UNION {PropLists(n) : n \in 0..MaxProps}}

\* object types of the kinds the tests use
NestedObjNodes ==
    {PlainObj(<<Prop("foo", FALSE, Kw("string")), Prop("bar", FALSE, Arr(Ref("P")))>>),
     PlainObj(<<Prop("foo", FALSE, Kw("string")), Prop("bar", TRUE, Kw("number"))>>),
     PlainObj(<<Prop("foo", FALSE, Kw("number")), Prop("bar", FALSE, Kw("string"))>>),
     PlainObj(<<Prop("foo", FALSE, Ref("S")), Prop("bar", TRUE, Ref("Q"))>>),
     PlainObj(<<Prop("foo", FALSE, UnionNode(<<Ref("P"), Kw("null")>>))>>),
     PlainObj(<<Prop("foo", FALSE, Kw("string")), Prop("bar", FALSE, Ref("X"))>>),
     PlainObj(<<Prop("foo", TRUE, Ref("X"))>>),
     PlainObj(<<Prop("foo", FALSE, Kw("string")), Prop("bar", FALSE, Arr(Kw("never")))>>)}

\* types in a position that no alias declares: an element, a property
WrappedNodes ==
    {Arr(n) : n \in RecordNodes \cup {TupleNode(<<Kw("string"), Ref("P")>>, FALSE)}}
    \cup {PlainObj(<<Prop("foo", FALSE, n)>>) : n \in RecordNodes}

IndexedObjNodes ==
    {ObjNode(ps, sidx, nidx, call) :
        ps \in {<<>>, <<Prop("foo", FALSE, Kw("string"))>>},
        sidx \in {NoNode, Kw("number"), Ref("P")},
        nidx \in {NoNode, Kw("string")},
        call \in BOOLEAN}

TypeNodes == AtomNodes \cup ArrayNodes \cup UnionNodes \cup LiteralUnionNodes \cup InterNodes \cup TupleNodes
             \cup RecordNodes \cup PlainObjNodes \cup NestedObjNodes \cup WrappedNodes \cup IndexedObjNodes

\* entry files that declare X out of order, before the declarations it may name
RenderPrograms ==
    {<<Stmt("alias", "X", node, DEFAULT_FILE_NAME), EnvP, EnvQ, EnvS, LibU>> : node \in TypeNodes}
    \cup {<<Stmt("interface", "X", node, DEFAULT_FILE_NAME), EnvP, EnvQ, EnvS, LibU>> : node \in PlainObjNodes}

\* an interface of a declaration file the entry file depends on
LibG == Stmt("interface", "G", PlainObj(<<Prop("g", FALSE, Kw("string"))>>), GLOBALS_FILE_NAME)

\* entry files that import LIB_FILE_NAME, given to either entry point
ImportPrograms ==
    {<<LibU, LibG>>,
     <<Stmt("interface", "A", PlainObj(<<Prop("u", FALSE, Ref("U"))>>), DEFAULT_FILE_NAME), LibU, LibG>>,
     <<Stmt("alias", "A", UnionNode(<<Ref("U"), Ref("G")>>), DEFAULT_FILE_NAME),
       Stmt("interface", "B", PlainObj(<<Prop("a", FALSE, Ref("A"))>>), DEFAULT_FILE_NAME), LibU, LibG>>}

\* `namespace N { ... }`: a module declaration, whose children are its name and
\* its body; the body of `namespace N.M { ... }` is the module declaration M
ModuleDeclaration(name, parent) == Inside(Stmt("module", name, NoNode, DEFAULT_FILE_NAME), parent)
Identifier(name, parent) == Inside(Stmt("identifier", name, NoNode, DEFAULT_FILE_NAME), parent)
ModuleBlock(parent) == Inside(Stmt("block", "", NoNode, DEFAULT_FILE_NAME), parent)

\* entry files with declarations inside namespaces
ModulePrograms ==
    {\* type A = string; namespace N { type T = number; interface I { a: string } }
     <<Stmt("alias", "A", Kw("string"), DEFAULT_FILE_NAME),
       ModuleDeclaration("N", 0), Identifier("N", 2), ModuleBlock(2),
       Inside(Stmt("alias", "T", Kw("number"), DEFAULT_FILE_NAME), 4),
       Inside(Stmt("interface", "I", PlainObj(<<Prop("a", FALSE, Kw("string"))>>), DEFAULT_FILE_NAME), 4),
       LibU>>,
     \* namespace N.M { type T = number }; interface B { a: string }
     <<ModuleDeclaration("N", 0), Identifier("N", 1),
       ModuleDeclaration("M", 1), Identifier("M", 3), ModuleBlock(3),
       Inside(Stmt("alias", "T", Kw("number"), DEFAULT_FILE_NAME), 5),
       Stmt("interface", "B", PlainObj(<<Prop("a", FALSE, Kw("string"))>>), DEFAULT_FILE_NAME),
       LibU>>,
     \* namespace N { }
     <<ModuleDeclaration("N", 0), Identifier("N", 1), ModuleBlock(1), LibU>>}

\* `function f() {}` and `f()`: statements that declare no type
FunctionDeclaration == Stmt("function", "f", NoNode, DEFAULT_FILE_NAME)
ExpressionStatement == Stmt("expression", "", NoNode, DEFAULT_FILE_NAME)

\* `const v: string = "x"` and `const w = 1`
AnnotatedConst == Stmt("var", "v", Kw("string"), DEFAULT_FILE_NAME)
InferredConst == Untyped(Stmt("var", "w", Lit("number", "1"), DEFAULT_FILE_NAME))

\* entry files with variable statements and statements of other kinds
VariablePrograms ==
    {<<AnnotatedConst, FunctionDeclaration, InferredConst, EnvP, LibU>>,
     <<InferredConst, LibU>>,
     <<AnnotatedConst, ExpressionStatement, EnvP, LibU>>,
     <<FunctionDeclaration, ExpressionStatement, LibU>>}

Programs == GraphPrograms \cup RenderPrograms \cup ImportPrograms \cup ModulePrograms \cup VariablePrograms

\* the statement `type name = kind`, none when kind is ""
AliasOf(name, kind) ==
    IF kind = "" THEN <<>> ELSE <<Stmt("alias", name, Kw(kind), DEFAULT_FILE_NAME)>>

\* the properties of X that name the alias: none when the alias is not declared
PropsOf(kind, props) == IF kind = "" THEN <<>> ELSE props

\* entry files for the newtype mode: an interface X whose properties name
\* primitive aliases, before the composite alias W and the aliases themselves
NominalPrograms ==
    {<<Stmt("interface", "X",
            PlainObj(<<Prop("w", FALSE, Ref("W"))>>
                     \o PropsOf(kT, <<Prop("t", FALSE, Ref("T")), Prop("o", TRUE, Ref("T"))>>)
                     \o PropsOf(kT1, <<Prop("t1", FALSE, Ref("T1")), Prop("a1", FALSE, Arr(Ref("T1")))>>)
                     \o PropsOf(kT2, <<Prop("t2", FALSE, UnionNode(<<Ref("T2"), Kw("null")>>))>>)
                     \o PropsOf(kT12, <<Prop("t12", FALSE, Ref("T12"))>>)
                     \o PropsOf(kU1, <<Prop("u1", FALSE, Ref("U1"))>>)),
            DEFAULT_FILE_NAME),
       Stmt("alias", "W", UnionNode(<<Kw("string"), Kw("number")>>), DEFAULT_FILE_NAME)>>
     \o AliasOf("T", kT) \o AliasOf("T1", kT1) \o AliasOf("T2", kT2)
     \o AliasOf("T12", kT12) \o AliasOf("U1", kU1) \o <<LibU>> :
        kT \in {"", "string", "number"}, kT1 \in {"", "string", "number"},
        kT2 \in {"", "string", "boolean"}, kT12 \in {"", "string"}, kU1 \in {"", "string"}}

\* the configurations of the newtype mode
NominalConfigs ==
    {[defaultConfig EXCEPT !.includeHeader = h, !.fileNames = <<DEFAULT_FILE_NAME>>,
                           !.newtypeMode = m, !.deduplicateNewtypes = dd] :
        h \in BOOLEAN, m \in {"none", "all"}, dd \in BOOLEAN}

\* the options given on the command line
CommandLineOptions == {"--follow-imports", "--no-include-header"}

(***************************************************************************)
(* getValidatorsFromString as a state machine                              *)
(***************************************************************************)
Init ==
    /\ program \in Programs
    \* the copies differ on objects with optional properties, which only X has
    /\ build \in IF program \in RenderPrograms /\ program[1].body.k = "obj"
                  THEN Builds ELSE {"lines 427-985"}
    /\ driver \in IF program \in ImportPrograms THEN {"string", "fileNames"} ELSE {"string"}
    \* getValidatorsFromFileNames reads its configuration from the command line
    /\ config \in IF driver = "fileNames"
                   THEN {getCliConfig(options, args) : options \in SUBSET CommandLineOptions,
                                                       args \in {<<>>, <<DEFAULT_FILE_NAME>>}}
                   ELSE {[defaultConfig EXCEPT !.followImports = f, !.includeHeader = h,
                                               !.fileNames = <<DEFAULT_FILE_NAME>>] :
                            f \in IF program \in ImportPrograms THEN BOOLEAN ELSE {FALSE},
                            h \in IF program \in RenderPrograms /\ program[1].kind = "alias"
                                  THEN BOOLEAN ELSE {FALSE}}
    /\ pc = "start"
    /\ declarations = <<>>
    /\ availableSymbols = {}
    /\ graph = <<>>
    /\ inDegree = <<>>
    /\ nodeMap = <<>>
    /\ queue = <<>>
    /\ sorted = <<>>
    /\ kahnCount = 0
    /\ newtypes = <<>>
    /\ variantToBase = <<>>
    /\ handled = 0
    /\ processedDeclarations = {}
    /\ warnings = 0
    /\ result = <<>>
    /\ output = <<>>
    /\ flagWord = 0
    /\ extracted = <<>>

\* lines 925-929: getValidatorsFromFileNames returns the usage text when no
\* file is named on the command line
HelpRequested == driver = "fileNames" /\ config.fileNames = <<>>

\* a variant that emits the header whatever config.includeHeader is
CollectHeaderAlways ==
    /\ pc = "start"
    /\ IF HelpRequested
       THEN /\ output' = displayHelp
            /\ pc' = "done"
            /\ UNCHANGED <<result, declarations, availableSymbols>>
       ELSE /\ result' = <<getImports>>
            /\ declarations' = CollectFrom(config, driver)
            /\ availableSymbols' = SymbolNames(declarations')
            /\ pc' = "build"
            /\ UNCHANGED output
    /\ UNCHANGED <<inputs, flagsTs, nominal, warnings, graph, inDegree, nodeMap, queue, sorted, kahnCount,
                   processedDeclarations>>

\* lines 871-896 (925-963 for getValidatorsFromFileNames): the header, the
\* collected declarations and their names
Collect ==
    /\ pc = "start"
    /\ IF HelpRequested
       THEN /\ output' = displayHelp
            /\ pc' = "done"
            /\ UNCHANGED <<result, declarations, availableSymbols>>
       ELSE /\ result' = IF config.includeHeader THEN <<getImports>> ELSE <<>>
            /\ declarations' = CollectFrom(config, driver)
            /\ availableSymbols' = SymbolNames(declarations')
            /\ pc' = "build"
            /\ UNCHANGED output
    /\ UNCHANGED <<inputs, flagsTs, nominal, warnings, graph, inDegree, nodeMap, queue, sorted, kahnCount,
                   processedDeclarations>>

\* topologicalSort, lines 715-765: the dependency graph
BuildGraph ==
    /\ pc = "build"
    /\ LET b == BuildFrom(declarations, availableSymbols, 1, <<>>, <<>>, <<>>)
       IN  /\ graph' = b.graph
           /\ inDegree' = b.inDegree
           /\ nodeMap' = b.nodeMap
    /\ pc' = "seed"
    /\ UNCHANGED <<inputs, flagsTs, nominal, warnings, declarations, availableSymbols, queue, sorted, kahnCount,
                   processedDeclarations, result, output>>

\* topologicalSort, lines 767-787: the in-degrees and the initial queue
SeedQueue ==
    /\ pc = "seed"
    /\ inDegree' = CalculateInDegrees(graph, inDegree, 1)
    /\ queue' = ZeroDegree(inDegree')
    /\ pc' = "kahn"
    /\ UNCHANGED <<inputs, flagsTs, nominal, warnings, declarations, availableSymbols, graph, nodeMap, sorted,
                   kahnCount, processedDeclarations, result, output>>

\* a variant that reads the head of the queue without removing it
KahnStepWithoutShift ==
    /\ pc = "kahn"
    /\ queue # <<>>
    /\ LET node == Head(queue)
           deps == IF MapHas(graph, node) THEN MapGet(graph, node) ELSE <<>>
           r == ReduceInDegrees(inDegree, queue, deps)
       IN  /\ sorted' = IF MapHas(nodeMap, node) THEN Append(sorted, MapGet(nodeMap, node)) ELSE sorted
           /\ inDegree' = r.inDegree
           /\ queue' = r.queue
    /\ UNCHANGED <<inputs, flagsTs, nominal, warnings, pc, declarations, availableSymbols, graph, nodeMap, kahnCount,
                   processedDeclarations, result, output>>

\* topologicalSort, lines 789-805: one iteration of the Kahn loop
KahnStep ==
    /\ pc = "kahn"
    /\ queue # <<>>
    /\ LET node == Head(queue)
           deps == IF MapHas(graph, node) THEN MapGet(graph, node) ELSE <<>>
           r == ReduceInDegrees(inDegree, Tail(queue), deps)
       IN  /\ sorted' = IF MapHas(nodeMap, node) THEN Append(sorted, MapGet(nodeMap, node)) ELSE sorted
           /\ inDegree' = r.inDegree
           /\ queue' = r.queue
    /\ UNCHANGED <<inputs, flagsTs, nominal, warnings, pc, declarations, availableSymbols, graph, nodeMap, kahnCount,
                   processedDeclarations, result, output>>

\* topologicalSort, lines 807-815: the declarations the loop never reached
AppendRemaining ==
    /\ pc = "kahn"
    /\ queue = <<>>
    /\ kahnCount' = Len(sorted)
    /\ sorted' = AppendMissing(sorted, declarations)
    /\ pc' = "render"
    /\ UNCHANGED <<inputs, flagsTs, nominal, warnings, declarations, availableSymbols, graph, inDegree, nodeMap, queue,
                   processedDeclarations, result, output>>

\* the number of declarations rendered so far
Rendered == Len(result) - (IF config.includeHeader THEN 1 ELSE 0)

\* a variant that records the name whether or not the translation succeeded
HandledInPlace(d, r) ==
    /\ result' = Append(result, Fragment(d, r))
    /\ processedDeclarations' = processedDeclarations \cup ({d.name} \ {""})
    /\ warnings' = warnings + r.warn

\* the effect of a call of handleDeclaration for d that ended as r
Handled(d, r) ==
    /\ result' = Append(result, Fragment(d, r))
    /\ processedDeclarations' = IF r.ok THEN processedDeclarations \cup {d.name}
                                ELSE processedDeclarations
    /\ warnings' = warnings + r.warn

\* lines 907-916: handleDeclaration of the next sorted declaration
HandleNext ==
    /\ pc = "render"
    /\ Rendered < Len(sorted)
    /\ Handled(program[sorted[Rendered + 1]],
               HandleOutcome(program[sorted[Rendered + 1]], availableSymbols, processedDeclarations))
    /\ UNCHANGED <<inputs, flagsTs, nominal, pc, declarations, availableSymbols, graph, inDegree, nodeMap,
                   queue, sorted, kahnCount, output>>

\* line 918: result.join("\n\n")
Finish ==
    /\ pc = "render"
    /\ Rendered = Len(sorted)
    /\ output' = Join(result, "\n\n")
    /\ pc' = "done"
    /\ UNCHANGED <<inputs, flagsTs, nominal, warnings, declarations, availableSymbols, graph, inDegree, nodeMap,
                   queue, sorted, kahnCount, processedDeclarations, result>>

\* newtype mode: the primitive aliases among the sorted declarations
ExtractNewtypes ==
    /\ pc = "render"
    /\ newtypes' = IF config.newtypeMode = "all" THEN extractNewtypes(sorted, <<>>) ELSE <<>>
    /\ pc' = "dedup"
    /\ UNCHANGED <<inputs, flagsTs, variantToBase, handled, warnings, declarations, availableSymbols, graph,
                   inDegree, nodeMap, queue, sorted, kahnCount, processedDeclarations, result, output>>

\* newtype mode: the numbered variants collapsed into their base, and the
\* header completed once it is known that newtypes are generated
Deduplicate ==
    /\ pc = "dedup"
    /\ LET d == deduplicate(newtypes)
       IN  IF config.newtypeMode = "all" /\ config.deduplicateNewtypes
           THEN newtypes' = d.newtypes /\ variantToBase' = d.variantToBase
           ELSE UNCHANGED <<newtypes, variantToBase>>
    /\ result' = IF config.includeHeader /\ newtypes # <<>> THEN <<getImports \o getNewtypeImports>>
                 ELSE result
    /\ pc' = "emit"
    /\ UNCHANGED <<inputs, flagsTs, handled, warnings, declarations, availableSymbols, graph, inDegree, nodeMap,
                   queue, sorted, kahnCount, processedDeclarations, output>>

\* newtype mode: the effect of a call of handleDeclaration for d, whose codec
\* is rendered as r when d is neither a deduplicated variant nor a newtype
HandledNominal(d, r) ==
    /\ result' = result \o NominalFragments(d, r)
    /\ processedDeclarations' = IF IsNominal(d) \/ r.ok THEN processedDeclarations \cup {d.name}
                                ELSE processedDeclarations
    /\ warnings' = warnings + (IF IsNominal(d) THEN 0 ELSE r.warn)

\* newtype mode: handleDeclaration of the next sorted declaration
RenderNext ==
    /\ pc = "emit"
    /\ handled < Len(sorted)
    /\ HandledNominal(program[sorted[handled + 1]],
                      HandleOutcomeNominal(program[sorted[handled + 1]], availableSymbols, processedDeclarations))
    /\ handled' = handled + 1
    /\ UNCHANGED <<inputs, flagsTs, newtypes, variantToBase, pc, declarations, availableSymbols, graph, inDegree,
                   nodeMap, queue, sorted, kahnCount, output>>

\* newtype mode: result.join("\n\n")
FinishNominal ==
    /\ pc = "emit"
    /\ handled = Len(sorted)
    /\ output' = Join(result, "\n\n")
    /\ pc' = "done"
    /\ UNCHANGED <<inputs, flagsTs, nominal, warnings, declarations, availableSymbols, graph, inDegree, nodeMap,
                   queue, sorted, kahnCount, processedDeclarations, result>>

Next == Collect \/ BuildGraph \/ SeedQueue \/ KahnStep \/ AppendRemaining \/ HandleNext \/ Finish

Spec == Init /\ [][Next]_vars

\* the program with the newtype mode: extraction and deduplication run between
\* the ordering and the rendering
InitNominal ==
    /\ program \in NominalPrograms \cup {f \in RenderPrograms : f[1].kind = "alias"}
    /\ build = "lines 427-985"
    /\ driver = "string"
    /\ config \in {c \in NominalConfigs :
                      /\ c.includeHeader => program \in NominalPrograms /\ Len(program) <= 6
                      /\ c.newtypeMode = "none" => program \in NominalPrograms /\ c.deduplicateNewtypes
                      /\ ~c.deduplicateNewtypes => program \in NominalPrograms}
    /\ pc = "start"
    /\ declarations = <<>>
    /\ availableSymbols = {}
    /\ graph = <<>>
    /\ inDegree = <<>>
    /\ nodeMap = <<>>
    /\ queue = <<>>
    /\ sorted = <<>>
    /\ kahnCount = 0
    /\ newtypes = <<>>
    /\ variantToBase = <<>>
    /\ handled = 0
    /\ processedDeclarations = {}
    /\ warnings = 0
    /\ result = <<>>
    /\ output = <<>>
    /\ flagWord = 0
    /\ extracted = <<>>

NextNominal ==
    Collect \/ BuildGraph \/ SeedQueue \/ KahnStep \/ AppendRemaining
    \/ ExtractNewtypes \/ Deduplicate \/ RenderNext \/ FinishNominal

NominalSpec == InitNominal /\ [][NextNominal]_vars

(***************************************************************************)
(* extractFlags as a state machine                                         *)
(***************************************************************************)
MaxSmallWord == 127    \* every flag word up to this one is tried

\* the flag words tried: the small ones, and words around the highest flags
FlagWords ==
    (0..MaxSmallWord)
    \cup {2^26, 2^26 + 2^3, 2^27, 2^27 + 2^26 + 1, 2^28 - 1, 2^28, 2^28 + 1, 2^28 + 2^27,
          2^29, 2^29 + 2^28, 2^30 - 1}

InitFlags ==
    /\ flagWord \in FlagWords
    /\ extracted = <<>>
    /\ pc = "flags"
    /\ program = <<>>
    /\ build = "lines 427-985"
    /\ driver = "string"
    /\ config = defaultConfig
    /\ declarations = <<>>
    /\ availableSymbols = {}
    /\ graph = <<>>
    /\ inDegree = <<>>
    /\ nodeMap = <<>>
    /\ queue = <<>>
    /\ sorted = <<>>
    /\ kahnCount = 0
    /\ newtypes = <<>>
    /\ variantToBase = <<>>
    /\ handled = 0
    /\ processedDeclarations = {}
    /\ warnings = 0
    /\ result = <<>>
    /\ output = <<>>

\* flags.ts lines 11-21: the call extractFlags(flagWord)
ExtractFlags ==
    /\ pc = "flags"
    /\ extracted' = extractFlags(flagWord)
    /\ pc' = "extracted"
    /\ UNCHANGED <<inputs, flagWord, nominal, warnings, declarations, availableSymbols, graph, inDegree,
                   nodeMap, queue, sorted, kahnCount, processedDeclarations, result, output>>

NextFlags == ExtractFlags

FlagsSpec == InitFlags /\ [][NextFlags]_vars

(***************************************************************************)
(* Properties of the ordering                                              *)
(***************************************************************************)
\* the k-th collected declaration, in discovery order
DeclAt(k) == program[declarations[k]]

\* topologicalSort has returned
Ordered == pc \in {"render", "done"}

\* the named declarations have pairwise distinct names
DistinctNames ==
    \A i, j \in 1..Len(declarations) :
        (i # j /\ DeclAt(i).name # "") => DeclAt(i).name # DeclAt(j).name

\* the body of declaration i names declaration j, another declaration, in a type reference
References(i, j) ==
    /\ DeclAt(j).name # ""
    /\ DeclAt(j).name # DeclAt(i).name
    /\ \E r \in 1..Len(NodeReferences(DeclAt(i).body)) : NodeReferences(DeclAt(i).body)[r] = DeclAt(j).name

Successors(S) == {j \in 1..Len(declarations) : \E i \in S : References(i, j)}

RECURSIVE ReachWithin(_, _)
ReachWithin(S, n) == IF n = 0 THEN S ELSE ReachWithin(S \cup Successors(S), n - 1)

\* the declarations i names directly or through other declarations
Reachable(i) == ReachWithin(Successors({i}), Len(declarations))

Acyclic == \A i \in 1..Len(declarations) : i \notin Reachable(i)

\* the position of the k-th collected declaration in the sorted list, 0 if absent
SortedPos(k) == IndexOf(sorted, declarations[k])

\* C1: for declarations with pairwise distinct names whose reference graph is
\* acyclic, topologicalSort puts every declaration after each other declaration
\* its body references
C1_DependencyOrder ==
    (Ordered /\ DistinctNames /\ Acyclic) =>
        \A i, j \in 1..Len(declarations) :
            References(i, j) => (SortedPos(j) > 0 /\ SortedPos(j) < SortedPos(i))

\* a chain A -> B -> C declared dependents first comes out reversed
C1_Witness ==
    /\ pc = "done" /\ DistinctNames /\ Acyclic
    /\ Len(declarations) = 3
    /\ References(1, 2) /\ References(2, 3)
    /\ sorted = <<declarations[3], declarations[2], declarations[1]>>

\* C2: the list topologicalSort returns is a permutation of the list it was
\* given, whether or not the reference graph has cycles: the same length, every
\* collected declaration exactly once
C2_Permutation ==
    Ordered =>
        /\ Len(sorted) = Len(declarations)
        /\ \A k \in 1..Len(declarations) :
               Cardinality({n \in 1..Len(sorted) : sorted[n] = declarations[k]}) = 1

\* a cycle between A and B, and a second declaration of the name A: the Kahn loop
\* emits nothing and the three declarations are appended
C2_Witness ==
    /\ pc = "render" /\ ~Acyclic /\ ~DistinctNames
    /\ Len(declarations) = 3
    /\ kahnCount = 0
    /\ sorted = declarations

(***************************************************************************)
(* Properties of the returned text                                         *)
(***************************************************************************)
HeaderLen == IF config.includeHeader THEN 1 ELSE 0

\* the fragment of the m-th rendered declaration
FragmentAt(m) == result[HeaderLen + m]

IsBinding(f) == Len(f) >= 3 /\ f[1] = "const " /\ f[3] = " = "

IsErrorMarker(f) == Len(f) = 2 /\ f[1] = "// Error: Failed to generate a codec for "

\* the output holds a binding `const name = ...`
Bound(name) == \E m \in 1..Len(sorted) : IsBinding(FragmentAt(m)) /\ FragmentAt(m)[2] = name

\* the codec expression of a binding
CodecOf(f) == IF IsBinding(f) THEN SubSeq(f, 4, Len(f)) ELSE <<>>

\* the collected names a codec uses as references
ReferencesIn(tokens) == {tokens[n] : n \in 1..Len(tokens)} \cap availableSymbols

\* C3 as stated: whenever the codec emitted for A contains the name of another
\* collected declaration B as a reference, the binding for B appears earlier in
\* the output than the binding for A, whatever the declaration order
C3_Original ==
    pc = "done" =>
        \A m \in 1..Len(sorted) :
            \A name \in ReferencesIn(CodecOf(FragmentAt(m))) :
                name # FragmentAt(m)[2] =>
                    \E b \in 1..(m - 1) : IsBinding(FragmentAt(b)) /\ FragmentAt(b)[2] = name

\* the fragment at m is a binding whose codec names a declaration that was
\* emitted before it and has an error marker in place of a binding
NamesUnboundDeclaration(m) ==
    /\ IsBinding(FragmentAt(m))
    /\ \E b \in 1..(m - 1) :
           /\ IsErrorMarker(FragmentAt(b))
           /\ FragmentAt(b)[2] # FragmentAt(m)[2]
           /\ FragmentAt(b)[2] \in ReferencesIn(CodecOf(FragmentAt(m)))

\* the declarations have distinct names and no reference cycle among them; the
\* declaration that names the other is declared first and emitted second, and
\* the one it names was emitted first as an error marker: no binding for it
\* precedes the binding that uses its name
C3_Witness ==
    /\ pc = "done" /\ DistinctNames /\ Acyclic
    /\ Len(sorted) = 2 /\ sorted = <<declarations[2], declarations[1]>>
    /\ NamesUnboundDeclaration(2)
    /\ ~Bound(FragmentAt(1)[2])
    /\ Text(output) = "// Error: Failed to generate a codec for B\n\nconst A = t.type({b: B})"

(***************************************************************************)
(* Properties of processType                                               *)
(***************************************************************************)
\* the entry file declares X, whose type is varied, before P, Q and S
DeclaresX == program[1].name = "X"

\* the fragment rendered for X
FragmentOfX == FragmentAt(IndexOf(sorted, 1))

Tokens(f) == {f[n] : n \in 1..Len(f)}

Mentions(node, name) == \E r \in 1..Len(NodeReferences(node)) : NodeReferences(node)[r] = name

\* the types the references to collected declarations denote
ReferencedTypes == {TypeOfNode(Ref(name)) : name \in availableSymbols}

\* C4: processType returns the bare declared name for any type whose symbol name
\* or alias-symbol name is in the available reference set, whatever types are
\* being expanded around it and before any structural classification: called
\* on such a type it returns the name alone, and the codec of a declaration X that mentions the
\* interface P or the alias Q below arrays, unions, tuples, records or properties
\* contains their names and never their structure
C4_NamedReferenceFirst ==
    pc = "done" =>
        /\ \A type \in ReferencedTypes : \A path \in {{}, ReferencedTypes} :
               /\ (type.sym # "" /\ type.sym \in availableSymbols)
                      => processType(type, availableSymbols, processedDeclarations, path) = Ok(<<type.sym>>)
               /\ (~(type.sym # "" /\ type.sym \in availableSymbols)
                      /\ type.alias # "" /\ type.alias \in availableSymbols)
                      => processType(type, availableSymbols, processedDeclarations, path) = Ok(<<type.alias>>)
        /\ (DeclaresX /\ IsBinding(FragmentOfX)) =>
               /\ Tokens(CodecOf(FragmentOfX)) \cap {"name", "id"} = {}
               /\ \A name \in {"P", "Q"} :
                      Mentions(program[1].body, name) => name \in Tokens(CodecOf(FragmentOfX))

\* the interface P, two combinators deep, is emitted by name
C4_Witness ==
    /\ pc = "done" /\ DeclaresX
    /\ program[1].body = PlainObj(<<Prop("foo", FALSE, Kw("string")), Prop("bar", FALSE, Arr(Ref("P")))>>)
    /\ "P" \in availableSymbols
    /\ Text(FragmentOfX) = "const X = t.type({foo: t.string, bar: t.array(P)})"

(***************************************************************************)
(* Properties of handleDeclaration                                         *)
(***************************************************************************)
\* the translation of declaration d throws
Throws(d) == ~HandleOutcome(d, availableSymbols, processedDeclarations).ok

\* declarations known to throw: no branch of processType accepts never, at the
\* top or below a property and an array, and a variable statement without a
\* symbol fails before processType is reached
Unclassifiable(d) ==
    \/ d.name = ""
    \/ (d.kind = "alias" /\ d.body = Kw("never"))
    \/ (d.body.k = "obj" /\ \E n \in 1..Len(d.body.props) : d.body.props[n].t = Arr(Kw("never")))

\* C5: when the translation of a declaration throws, handleDeclaration returns
\* exactly the one line `// Error: Failed to generate a codec for <name>`; the
\* exception does not propagate, and every other declaration of the run still
\* gets its fragment
C5_ErrorMarker ==
    (pc = "done" /\ ~HelpRequested) =>
        /\ Len(result) = HeaderLen + Len(declarations)
        /\ \A m \in 1..Len(sorted) :
               LET d == program[sorted[m]]
                   thrown == Throws(d)
               IN  /\ Unclassifiable(d) => thrown
                   /\ thrown => FragmentAt(m) = <<"// Error: Failed to generate a codec for ", d.name>>
                   /\ ~thrown => (IsBinding(FragmentAt(m)) /\ FragmentAt(m)[2] = d.name)

\* the second of three declarations fails; the first and the third are rendered
C5_Witness ==
    /\ pc = "done"
    /\ Len(declarations) = 3
    /\ Throws(program[sorted[2]])
    /\ Text(output) = "const A = t.type({})\n\n// Error: Failed to generate a codec for B\n\nconst C = t.type({})"

(***************************************************************************)
(* Properties of processObjectType                                         *)
(***************************************************************************)
\* an object type with properties only: no index signature, no call signature
PlainObject(node) == node.k = "obj" /\ node.sidx = NoNode /\ node.nidx = NoNode /\ ~node.call

\* `name: codec`, the codec being that of the property's type
EntryOf(p) ==
    <<p.name, ": ">>
    \o processType(TypeOfProperty(p), availableSymbols \ {"X"}, processedDeclarations, {TypeOfDeclaration(program[1])}).text

\* the entries of the properties whose optionality marker is opt, in declaration order
RECURSIVE EntriesOf(_, _)
EntriesOf(props, opt) ==
    IF props = <<>> THEN <<>>
    ELSE (IF Head(props).opt = opt THEN <<EntryOf(Head(props))>> ELSE <<>>) \o EntriesOf(Tail(props), opt)

\* the form the claim gives for an object with these properties
ObjectForm(props) ==
    LET R == Join(EntriesOf(props, FALSE), ", ")
        O == Join(EntriesOf(props, TRUE), ", ")
    IN  IF R # <<>> /\ O # <<>>
        THEN <<"t.intersection([t.type({">> \o R \o <<"}), t.partial({">> \o O \o <<"})])">>
        ELSE IF O = <<>> THEN <<"t.type({">> \o R \o <<"})">>
        ELSE <<"t.partial({">> \o O \o <<"})">>

\* C7: for a plain object type processObjectType emits
\* t.intersection([t.type({R}), t.partial({O})]) when there are required and
\* optional properties, t.type({R}) when all are required, t.partial({O}) when
\* all are optional and t.type({}) when there are none; every property appears
\* once, in its part, as `name: codec`, in declaration order, and the entries of
\* each part are separated by `, `
C7_ObjectForms ==
    (pc = "done" /\ DeclaresX /\ PlainObject(program[1].body) /\ IsBinding(FragmentOfX)) =>
        Text(CodecOf(FragmentOfX)) = Text(ObjectForm(program[1].body.props))

\* built from lines 1-425, two required properties are separated by `,` alone
C7_Witness ==
    /\ pc = "done" /\ DeclaresX
    /\ build = "lines 1-425"
    /\ program[1].kind = "interface"
    /\ program[1].body = PlainObj(<<Prop("foo", FALSE, Kw("string")), Prop("bar", FALSE, Ref("P")),
                                    Prop("baz", TRUE, Kw("string"))>>)
    /\ Text(FragmentOfX) = "const X = t.intersection([t.type({foo: t.string,bar: P}), "
                            \o "t.partial({baz: t.union([t.undefined, t.string])})])"

(***************************************************************************)
(* Termination                                                             *)
(***************************************************************************)
\* every declaration has a fragment, a binding or an error marker
AllTranslated ==
    /\ Len(result) = HeaderLen + Len(declarations)
    /\ \A m \in 1..Len(declarations) : IsBinding(FragmentAt(m)) \/ IsErrorMarker(FragmentAt(m))

\* the names whose in-degree is still positive
Pending == {n \in 1..Len(inDegree) : inDegree[n].val > 0}

\* an upper bound on the steps the run has left: it bounds the iterations of
\* the Kahn loop by the queue and the names yet to reach in-degree 0, and the
\* rendering loop by the declarations yet to be rendered
Remaining ==
    CASE pc = "start"  -> 3 * Len(program) + 5
      [] pc = "build"  -> 3 * Len(declarations) + 4
      [] pc = "seed"   -> 3 * Len(declarations) + 3
      [] pc = "kahn"   -> Len(queue) + Cardinality(Pending) + Len(declarations) + 2
      [] pc = "render" -> Len(sorted) - Rendered + 1
      [] pc = "done"   -> 0

\* the run is not stuck: the guard of a step holds
Continues ==
    \/ pc \in {"start", "build", "seed", "kahn"}
    \/ (pc = "render" /\ Rendered <= Len(sorted))

XType == TypeOfDeclaration(program[1])

\* the names processType may emit while it renders X
Others == availableSymbols \ {"X"}

\* X is an alias whose type, with members and no name to emit in its place,
\* was rendered to a binding.  The type boolean, the union of false and true, is
\* a primitive and not a union in this sense.
RenderedWithMembers(flag) ==
    /\ pc = "done" /\ DeclaresX /\ program[1].kind = "alias"
    /\ HasFlag(XType, flag) /\ ~HasFlag(XType, TF_Boolean)
    /\ ~(XType.sym \in Others) /\ ~(XType.alias \in Others)
    /\ IsBinding(FragmentOfX)

\* a member that is a string literal
StringLiteralMember(t) == t.flags = TF_StringLiteral

\* the text of the codec of member t of X
MemberText(t) == Text(processType(t, Others, processedDeclarations, {XType}).text)

\* texts separated by sep
RECURSIVE JoinText(_, _)
JoinText(texts, sep) ==
    IF texts = <<>> THEN ""
    ELSE IF Len(texts) = 1 THEN texts[1]
    ELSE texts[1] \o sep \o JoinText(Tail(texts), sep)

\* C8: a union type that is not emitted by name is rendered as
\* t.keyof({"v1": null, "v2": null, ...}), the values in the order of the
\* union's member list, if and only if every member is a string literal; a union
\* with a member that is not a string literal is rendered as t.union([...]) in
\* which each string-literal member appears as t.literal("v")
C8_StringLiteralUnion ==
    RenderedWithMembers(TF_Union) =>
        LET ts == XType.types
            c == CodecOf(FragmentOfX)
            allStrings == \A i \in 1..Len(ts) : StringLiteralMember(ts[i])
        IN  /\ (c[1] = "t.keyof") <=> allStrings
            /\ allStrings =>
                   Text(c) = "t.keyof({"
                             \o JoinText([i \in 1..Len(ts) |-> "\"" \o ts[i].node.value \o "\": null"], ", ")
                             \o "})"
            /\ ~allStrings =>
                   Text(c) = "t.union(["
                             \o JoinText([i \in 1..Len(ts) |->
                                             IF StringLiteralMember(ts[i])
                                             THEN "t.literal(\"" \o ts[i].node.value \o "\")"
                                             ELSE MemberText(ts[i])], ", ")
                             \o "])"

\* "foo" | "bar" | null: the member null keeps the union out of the keyof form
C8_Witness ==
    /\ pc = "done" /\ DeclaresX
    /\ program[1].body = UnionNode(<<Lit("string", "foo"), Lit("string", "bar"), Kw("null")>>)
    /\ Text(FragmentOfX) = "const X = t.union([t.null, t.literal(\"foo\"), t.literal(\"bar\")])"
\* the tokens that open and close a bracket
Opening == {"(", "[", "{"}
Closing == {")", "]", "}"}

\* the parts of a token list between the separators `, ` that lie outside every
\* bracket; cur is the part being read, level the number of open brackets
RECURSIVE SplitTop(_, _, _)
SplitTop(tokens, cur, level) ==
    IF tokens = <<>> THEN <<cur>>
    ELSE LET h == Head(tokens) IN
         IF h = ", " /\ level = 0 THEN <<cur>> \o SplitTop(Tail(tokens), <<>>, 0)
         ELSE SplitTop(Tail(tokens), Append(cur, h),
                       IF h \in Opening THEN level + 1 ELSE IF h \in Closing THEN level - 1 ELSE level)

\* the codecs listed between `name([` and `])`
ListedCodecs(c) == SplitTop(SubSeq(c, 4, Len(c) - 2), <<>>, 0)

IsCombinator(c, name) ==
    /\ Len(c) >= 6
    /\ SubSeq(c, 1, 3) = <<name, "(", "[">>
    /\ SubSeq(c, Len(c) - 1, Len(c)) = <<"]", ")">>

\* the codec of X lists one codec per member of the member list, in its order
ListsEveryMember(name) ==
    LET c == CodecOf(FragmentOfX)
        ts == XType.types
    IN  /\ IsCombinator(c, name)
        /\ Len(ListedCodecs(c)) = Len(ts)
        /\ \A i \in 1..Len(ts) : ListedCodecs(c)[i] = processType(ts[i], Others, processedDeclarations, {XType}).text

\* C9: the list inside a rendered t.union([...]) or t.intersection([...]) holds
\* exactly one codec per member of the type's member list, in member-list order;
\* processType removes no duplicates, so two members with the same rendered
\* text both appear
C9_OneCodecPerMember ==
    /\ (RenderedWithMembers(TF_Union) /\ CodecOf(FragmentOfX)[1] # "t.keyof") => ListsEveryMember("t.union")
    /\ RenderedWithMembers(TF_Intersection) => ListsEveryMember("t.intersection")

\* two object types of the same shape are two members and two codecs
C9_Witness ==
    /\ pc = "done" /\ DeclaresX
    /\ program[1].body = UnionNode(<<ObjA, ObjA>>)
    /\ Len(XType.types) = 2
    /\ Text(FragmentOfX) = "const X = t.union([t.type({a: t.string}), t.type({a: t.string})])"
(***************************************************************************)
(* Properties of the classification                                        *)
(***************************************************************************)
\* whether a type matches each category, in the order of the claim: literal,
\* primitive, generic object, union, intersection, tuple, array, Record alias,
\* string-indexed, number-indexed, function, plain object, void, any/unknown
CategoryTests(t) ==
    <<isLiteralType(t), isPrimitiveType(t), isBasicObjectType(t), isUnion(t), isIntersection(t),
      isTupleType(t), isArrayType(t), isRecordType(t), isStringIndexedObjectType(t),
      isNumberIndexedType(t), isFunctionType(t), isObjectType(t), isVoid(t), isAnyOrUnknown(t)>>

Matching(t) == LET tests == CategoryTests(t) IN {k \in 1..14 : tests[k]}

\* the earliest category a type matches, 0 when it matches none
FirstCategory(t) ==
    LET M == Matching(t) IN IF M = {} THEN 0 ELSE CHOOSE k \in M : \A j \in M : k <= j

\* how the codec of category k begins
OpeningOf(k, t) ==
    CASE k = 1 -> {<<"t.literal", "(", t.str, ")">>}
      [] k = 2 -> {<<"t." \o t.str>>}
      [] k = 3 -> {<<"t.type", "(", "{", "}", ")">>}
      [] k = 4 -> {<<"t.union", "(", "[">>, <<"t.keyof", "(", "{">>}
      [] k = 5 -> {<<"t.intersection", "(", "[">>}
      [] k = 6 -> {<<"t.tuple", "(", "[">>}
      [] k = 7 -> {<<"t.array", "(">>}
      [] k = 8 -> {<<"t.record", "(">> \o processType(TypeOfNode(t.node.key), Others, processedDeclarations, {XType, t}).text \o <<", ">>}
      [] k = 9 -> {<<"t.record", "(", "t.string", ", ">>}
      [] k = 10 -> {<<"t.record", "(", "t.number", ", ">>}
      [] k = 11 -> {<<"t.Function">>}
      [] k = 12 -> {<<"t.type", "(", "{">>, <<"t.partial", "(", "{">>,
                    <<"t.intersection", "(", "[", "t.type", "(", "{">>}
      [] k = 13 -> {<<"t.void">>}
      [] k = 14 -> {<<"t.unknown">>}
      [] OTHER -> {}

\* the categories whose codec has no parts
Atomic == {1, 2, 3, 11, 13, 14}

\* codec c is the codec of category k
CodecOfCategory(c, k, t) ==
    \E o \in OpeningOf(k, t) :
        /\ Len(c) >= Len(o)
        /\ SubSeq(c, 1, Len(o)) = o
        /\ k \in Atomic => Len(c) = Len(o)

\* outcome r of rendering t is the one the earliest category of t gives
RenderedByFirst(r, t) ==
    LET k == FirstCategory(t)
    IN  /\ k = 0 => ~r.ok
        /\ k \in Atomic => r.ok
        /\ r.ok => CodecOfCategory(r.text, k, t)

\* the types of the parts of X's declared type
PartTypes ==
    LET n == program[1].body
    IN  CASE n.k = "arr" -> {TypeOfNode(n.e)}
          [] n.k \in {"union", "inter", "tuple"} -> {TypeOfNode(n.ts[i]) : i \in 1..Len(n.ts)}
          [] n.k = "record" -> {TypeOfNode(n.key), TypeOfNode(n.val)}
          [] n.k = "obj" -> {TypeOfProperty(n.props[i]) : i \in 1..Len(n.props)}
                            \cup {TypeOfNode(i) : i \in {n.sidx, n.nidx} \ {NoNode}}
          [] OTHER -> {}

Unnamed(t) == ~(t.sym \in Others) /\ ~(t.alias \in Others)

\* C10: a type that is not emitted by name is rendered by the first category it
\* matches in the order literal, primitive, generic object, union,
\* intersection, tuple, array, Record alias, string-indexed, number-indexed,
\* function, plain object, void, any/unknown; a type that matches several
\* (array and object, Record alias and string-indexed, string-indexed and
\* number-indexed, function and object) is rendered by the earliest, and a type
\* that matches none is not rendered
C10_FirstCategoryWins ==
    (pc = "done" /\ DeclaresX) =>
        /\ Unnamed(XType) =>
               /\ RenderedByFirst(HandleOutcome(program[1], availableSymbols, processedDeclarations), XType)
               /\ IsBinding(FragmentOfX) => CodecOfCategory(CodecOf(FragmentOfX), FirstCategory(XType), XType)
               /\ IsErrorMarker(FragmentOfX) => FirstCategory(XType) \notin Atomic
        /\ \A t \in PartTypes : Unnamed(t) => RenderedByFirst(processType(t, Others, processedDeclarations, {}), t)

\* an array of a Record: the array is an object with a number index, its element
\* carries the alias Record and a string index
C10_Witness ==
    /\ pc = "done" /\ DeclaresX
    /\ program[1].body = Arr(RecordNode(Kw("string"), Ref("P")))
    /\ {6, 7, 10, 12} \cap Matching(XType) = {7, 10, 12}
    /\ \E t \in PartTypes : {8, 9, 12} \subseteq Matching(t)
    /\ Text(FragmentOfX) = "const X = t.array(t.record(t.string, P))"
(***************************************************************************)
(* Properties of tuples                                                    *)
(***************************************************************************)
\* the elements of a tuple node before its rest element
FixedElements(node) == IF node.rest THEN SubSeq(node.ts, 1, Len(node.ts) - 1) ELSE node.ts

\* C11: a tuple type is rendered as t.tuple([...]) with one codec per fixed
\* element, in element order; when the tuple has a trailing rest element the
\* translation does not fail, a warning is issued and the tuple lists the fixed
\* elements only, so that the type of the rest element is not in the output
C11_TupleFixedElements ==
    (pc = "done" /\ DeclaresX /\ program[1].kind = "alias" /\ isTupleType(XType)) =>
        LET fixed == FixedElements(program[1].body)
        IN  /\ IsBinding(FragmentOfX)
            /\ Text(CodecOf(FragmentOfX))
                 = "t.tuple([" \o JoinText([i \in 1..Len(fixed) |-> MemberText(TypeOfNode(fixed[i]))], ",") \o "])"
            /\ program[1].body.rest => warnings > 0

\* [string, ...P[]]: no warning, and the rest element's type P listed as if it
\* were a second fixed element
C11_Witness ==
    /\ pc = "done" /\ DeclaresX
    /\ program[1].body = TupleNode(<<Kw("string"), Ref("P")>>, TRUE)
    /\ isTupleType(XType) /\ TargetHasRestElement(XType)
    /\ warnings = 0
    /\ Text(FragmentOfX) = "const X = t.tuple([t.string,P])"

(***************************************************************************)
(* Properties of the collection                                            *)
(***************************************************************************)
\* the declarations written at the top level of a source file
TopLevel(i) == program[i].kind \in DeclarationKinds /\ program[i].parent = 0

\* statement i is one of the collected declarations
Collected(i) == Contains(declarations, i)

InScope(i) == config.followImports \/ Contains(config.fileNames, program[i].file)

\* C13: once the declarations are collected, a declaration of a source file of
\* the compiled program is among them if and only if followImports is true or
\* its file is one of config.fileNames.
C13_CollectedIffInScope ==
    (pc # "start" /\ ~HelpRequested) =>
        \A i \in 1..Len(program) : TopLevel(i) => (Collected(i) <=> InScope(i))

\* getValidatorsFromString was called with followImports on a file that imports
\* LIB_FILE_NAME, and returned without a fragment for the imported interface U,
\* whose codec is written out inside A
C13_Witness ==
    /\ pc = "done" /\ driver = "string" /\ config.followImports
    /\ program \in ImportPrograms /\ Len(program) = 3
    /\ ~Collected(2)
    /\ Text(output) = "const A = t.type({u: t.type({u: t.null})})"

\* the module declarations that enclose statement i, innermost first
RECURSIVE Enclosing(_)
Enclosing(i) ==
    IF program[i].parent = 0 THEN <<>>
    ELSE (IF program[program[i].parent].kind = "module" THEN <<program[i].parent>> ELSE <<>>)
         \o Enclosing(program[i].parent)

\* a declaration written in the body of a namespace
InNamespace(i) == program[i].kind \in DeclarationKinds /\ Enclosing(i) # <<>>

\* C14: a type alias, interface or const declaration in the body of a namespace
\* of an in-scope file, at any depth, is collected, and the collected
\* declarations are in source order.
C14_NamespaceMembersCollected ==
    pc # "start" =>
        /\ \A i \in 1..Len(program) : InNamespace(i) /\ InScope(i) => Collected(i)
        /\ \A k \in 1..(Len(declarations) - 1) : declarations[k] < declarations[k + 1]

\* a file with an alias at the top level and two declarations in a namespace was
\* translated: the output has the top-level alias only
C14_Witness ==
    /\ pc = "done"
    /\ \E i \in 1..Len(program) : InNamespace(i) /\ Len(Enclosing(i)) = 1
    /\ Text(output) = "const A = t.string"

(***************************************************************************)
(* Properties of the header                                                *)
(***************************************************************************)
IsScaffold(f) == f # <<>> /\ f[1] = "export interface "

\* a newtype was generated in this run
NewtypeGenerated == \E k \in 1..Len(result) : IsScaffold(result[k])

\* the sorted declarations that are no deduplicated variants
RECURSIVE Emitted(_)
Emitted(decls) ==
    IF decls = <<>> THEN <<>>
    ELSE (IF MapHas(variantToBase, program[Head(decls)].name) THEN <<>> ELSE <<Head(decls)>>)
         \o Emitted(Tail(decls))

\* fragment f is what declaration d may be rendered as
IsFragmentOf(f, d) ==
    \/ IsScaffold(f) /\ f[2] = d.name
    \/ IsBinding(f) /\ f[2] = d.name
    \/ f = ErrorMarker(d)

\* C12: the returned text starts with `import * as t from "io-ts"` if and only
\* if includeHeader is true; it holds the import lines of fromNewtype and of
\* Newtype, iso if and only if includeHeader is true and a newtype was
\* generated; with includeHeader false it is the fragments of the declarations
\* joined by a blank line.
C12_Header ==
    pc = "done" =>
        /\ (output # <<>> /\ output[1] = "import * as t from \"io-ts\"") <=> config.includeHeader
        /\ ({"import { fromNewtype } from \"io-ts-types/lib/fromNewtype\"",
             "import { Newtype, iso } from \"newtype-ts\""} \subseteq Tokens(output))
              <=> (config.includeHeader /\ NewtypeGenerated)
        /\ {"import { fromNewtype } from \"io-ts-types/lib/fromNewtype\"",
             "import { Newtype, iso } from \"newtype-ts\""} \cap Tokens(output) # {}
              => (config.includeHeader /\ NewtypeGenerated)
        /\ ~config.includeHeader =>
              /\ Len(result) = Len(Emitted(sorted))
              /\ \A k \in 1..Len(result) : IsFragmentOf(result[k], program[Emitted(sorted)[k]])
              /\ output = Join(result, "\n\n")

\* a run with the header in which a newtype was generated returned the three
\* import lines first
C12_Witness ==
    /\ pc = "done" /\ config.includeHeader /\ NewtypeGenerated
    /\ Len(output) > 5
    /\ Text(SubSeq(output, 1, 6))
         = "import * as t from \"io-ts\"\nimport { fromNewtype } from \"io-ts-types/lib/fromNewtype\"\n"
           \o "import { Newtype, iso } from \"newtype-ts\"\n\n"

(***************************************************************************)
(* Properties of the newtypes                                              *)
(***************************************************************************)
\* the primitive a declaration's resolved type is, "" when it is none of
\* string, number and boolean
PrimitiveOf(d) ==
    LET type == TypeOfDeclaration(d)
    IN  IF type.flags = TF_String THEN "string"
        ELSE IF type.flags = TF_Number THEN "number"
        ELSE IF type.flags = TF_Boolean + TF_Union THEN "boolean"
        ELSE ""

\* a type alias that resolves to string, number or boolean
PrimitiveAlias(d) == d.kind = "alias" /\ PrimitiveOf(d) # ""

\* the fragment of the sorted declaration i, <<>> when it has none
FragmentOfDeclaration(i) ==
    IF Contains(Emitted(sorted), i) THEN result[HeaderLen + IndexOf(Emitted(sorted), i)] ELSE <<>>

\* the three lines of a newtype N over the primitive P
ThreeLines(N, P) ==
    "export interface " \o N \o " extends Newtype<{ readonly " \o N \o ": unique symbol }, " \o P \o "> {}"
    \o "\nexport const " \o N \o " = fromNewtype<" \o N \o ">(t." \o P \o ")"
    \o "\nexport const iso" \o N \o " = iso<" \o N \o ">()"

\* the declarations in D are emitted as the three lines of a newtype, and no
\* fragment binds their name to the primitive codec
EmittedAsNewtypes(D) ==
    \A i \in D :
        LET d == program[i]
        IN  /\ Text(FragmentOfDeclaration(i)) = ThreeLines(d.name, PrimitiveOf(d))
            /\ \A k \in 1..Len(result) :
                    Text(result[k]) # "const " \o d.name \o " = t." \o PrimitiveOf(d)

\* the statement of C15 as written: every primitive alias is emitted as three lines
C15_Original ==
    (pc = "done" /\ config.newtypeMode = "all") =>
        EmittedAsNewtypes({i \in Range(sorted) : PrimitiveAlias(program[i])})

\* C15: with newtypeMode "all", a type alias N that resolves to the primitive P
\* and is not a deduplicated variant is emitted as exactly the three lines of
\* the newtype N over P, and not as `const N = t.P`.
C15_ThreeLines ==
    (pc = "done" /\ config.newtypeMode = "all") =>
        EmittedAsNewtypes({i \in Range(sorted) :
                              PrimitiveAlias(program[i]) /\ ~MapHas(variantToBase, program[i].name)})

\* `type X = boolean`, alone among the declarations to resolve to boolean, was
\* emitted as a newtype
C15_Witness ==
    /\ pc = "done" /\ config.newtypeMode = "all" /\ DeclaresX
    /\ program[1].body = Kw("boolean")
    /\ Text(FragmentOfDeclaration(1))
         = "export interface X extends Newtype<{ readonly X: unique symbol }, boolean> {}"
           \o "\nexport const X = fromNewtype<X>(t.boolean)\nexport const isoX = iso<X>()"

\* C16: once the newtypes are extracted, a declaration has a newtype if and only
\* if newtypeMode is "all", it is a type alias and its resolved type is string,
\* number or boolean, and the newtype has that kind; at the end every
\* declaration that got no newtype is rendered as a binding `const N = ...`.
C16_NewtypeIff ==
    /\ pc = "dedup" =>
          \A i \in Range(sorted) :
              LET d == program[i]
              IN  /\ MapHas(newtypes, d.name) <=> (config.newtypeMode = "all" /\ PrimitiveAlias(d))
                  /\ MapHas(newtypes, d.name) => MapGet(newtypes, d.name) = PrimitiveOf(d)
    /\ pc = "done" =>
          \A i \in Range(sorted) :
              LET d == program[i]
              IN  ~(config.newtypeMode = "all" /\ PrimitiveAlias(d)) =>
                      \/ IsBinding(FragmentOfDeclaration(i)) /\ FragmentOfDeclaration(i)[2] = d.name
                      \/ Throws(d) /\ FragmentOfDeclaration(i) = ErrorMarker(d)

\* the composite alias W and the interface X were rendered as bindings beside
\* the newtype T
C16_Witness ==
    /\ pc = "done" /\ config.newtypeMode = "all"
    /\ program \in NominalPrograms /\ MapHas(newtypes, "T") /\ ~MapHas(newtypes, "W")
    /\ Text(FragmentOfDeclaration(2)) = "const W = t.union([t.string, t.number])"
    /\ IsBinding(FragmentOfDeclaration(1))

(***************************************************************************)
(* Properties of the deduplication                                         *)
(***************************************************************************)
\* name is base followed by one or more decimal digits, base being non-empty
\* and not ending in a digit
NumberedVariantOf(name, base) ==
    LET cs == Spelling(name)
    IN  \E k \in 1..(Len(cs) - 1) :
            /\ Text(SubSeq(cs, 1, k)) = base
            /\ cs[k] \notin Digits
            /\ \A j \in (k + 1)..Len(cs) : cs[j] \in Digits

\* the newtypes extracted from the sorted declarations, before deduplication
Extracted == extractNewtypes(sorted, <<>>)

ExtractedNames == Range(MapKeys(Extracted))

\* a newtype has the base name and every numbered variant of the base among
\* the newtypes has the kind of the base
GroupCollapses(base) ==
    /\ base \in ExtractedNames
    /\ \A v \in ExtractedNames :
           NumberedVariantOf(v, base) => MapGet(Extracted, v) = MapGet(Extracted, base)

\* C17: after deduplication a newtype name is mapped to a base if and only if it
\* is a numbered variant of that base, a newtype has the base name, and every
\* numbered variant of the base has the primitive kind of the base; a mapped
\* name is removed from the newtypes, every other newtype stays with its kind;
\* a name of digits only or without a trailing digit is never a variant.
C17_Deduplicate ==
    /\ (pc = "emit" /\ config.newtypeMode = "all" /\ config.deduplicateNewtypes) =>
          /\ Range(MapKeys(variantToBase)) \subseteq ExtractedNames
          /\ \A name \in ExtractedNames :
                /\ \A base \in ExtractedNames \cup {"T", "U"} :
                       (MapHas(variantToBase, name) /\ MapGet(variantToBase, name) = base)
                           <=> (NumberedVariantOf(name, base) /\ GroupCollapses(base))
                /\ MapHas(variantToBase, name) =>
                       MapGet(variantToBase, name) \in ExtractedNames \cup {"T", "U"}
                /\ MapHas(variantToBase, name) <=> ~MapHas(newtypes, name)
                /\ MapHas(newtypes, name) => MapGet(newtypes, name) = MapGet(Extracted, name)
    /\ \A name \in {"42", "V2x", "T", ""} : parseNumberedVariant(name) = ""

\* T1 and T12 were mapped to T and removed, and U1, which has no base, stays a
\* newtype
C17_Witness ==
    /\ pc = "emit" /\ config.newtypeMode = "all" /\ config.deduplicateNewtypes
    /\ MapHas(variantToBase, "T1") /\ MapGet(variantToBase, "T1") = "T"
    /\ MapHas(variantToBase, "T12") /\ MapGet(variantToBase, "T12") = "T"
    /\ MapHas(newtypes, "U1") /\ ~MapHas(variantToBase, "U1")
    /\ ~MapHas(newtypes, "T1")

\* the deduplicated variants
Variants == Range(MapKeys(variantToBase))

\* tokens ts occur one after the other in fragment f
Occurs(ts, f) == \E k \in 0..(Len(f) - Len(ts)) : SubSeq(f, k + 1, k + Len(ts)) = ts

\* the properties of declaration d whose declared type is a reference to a
\* deduplicated variant
VariantProperties(d) ==
    IF d.body.k = "obj"
    THEN {p \in Range(d.body.props) : p.t.k = "ref" /\ p.t.n \in Variants}
    ELSE {}

\* C18: with newtypeMode "all" and deduplication enabled, a declaration whose
\* name is a deduplicated variant has no fragment, no fragment names a variant,
\* and a property whose declared type is a variant is rendered with the base
\* name.
C18_VariantsCollapsed ==
    (pc = "done" /\ config.newtypeMode = "all" /\ config.deduplicateNewtypes) =>
        /\ Len(result) = HeaderLen + Cardinality({i \in Range(sorted) : program[i].name \notin Variants})
        /\ \A k \in 1..Len(result) : Tokens(result[k]) \cap Variants = {}
        /\ \A i \in Range(sorted) : \A p \in VariantProperties(program[i]) :
               Occurs(<<p.name, ": ", MapGet(variantToBase, p.t.n)>>, FragmentOfDeclaration(i))
        /\ \A v \in Variants :
               Cardinality({k \in 1..Len(result) :
                               IsScaffold(result[k]) /\ result[k][2] = MapGet(variantToBase, v)}) = 1

\* T, T1 and T2 alias string: T is the only newtype emitted, and the property
\* t1 of type T1 is rendered as T
C18_Witness ==
    /\ pc = "done" /\ config.newtypeMode = "all" /\ config.deduplicateNewtypes
    /\ Len(program) = 6 /\ \A i \in 3..5 : program[i].body = Kw("string")
    /\ Variants = {"T1", "T2"}
    /\ Cardinality({k \in 1..Len(result) : IsScaffold(result[k])}) = 1
    /\ Occurs(<<"t1", ": ", "T">>, FragmentOfDeclaration(1))
    /\ Occurs(<<"t.union", "(", "[", "T", ", ", "t.null", "]", ")">>, FragmentOfDeclaration(1))

\* deduplication ran in this invocation
Deduplicated == pc = "emit" /\ config.newtypeMode = "all" /\ config.deduplicateNewtypes

\* the map once the entries of more are set in it, in their order
RECURSIVE MapSetAll(_, _)
MapSetAll(map, more) ==
    IF more = <<>> THEN map
    ELSE MapSetAll(MapSet(map, Head(more).key, Head(more).val), Tail(more))

\* C19: applying deduplicate twice yields the same variantToBase map as applying
\* it once.  The first application is the one of the run, which left newtypes
\* and variantToBase; the second is applied to the newtype map the first left.
\* The map from variants to bases after the two applications is the map after
\* the first: the second maps no name, finds no base with variants and removes
\* no newtype.
C19_Idempotent ==
    Deduplicated =>
        /\ MapSetAll(variantToBase, deduplicate(newtypes).variantToBase) = variantToBase
        /\ deduplicate(newtypes).variantToBase = <<>>
        /\ deduplicate(newtypes).basesWithVariants = {}
        /\ deduplicate(newtypes).newtypes = newtypes

\* the first application mapped T1 and T2 to T; the second maps nothing
C19_Witness ==
    /\ Deduplicated
    /\ Variants = {"T1", "T2"}
    /\ newtypes = <<[key |-> "T", val |-> "string"]>>
    /\ MapSetAll(variantToBase, deduplicate(newtypes).variantToBase) = variantToBase
    /\ MapGet(variantToBase, "T1") = "T" /\ MapGet(variantToBase, "T2") = "T"

(***************************************************************************)
(* Properties of the reference preservation                                *)
(***************************************************************************)
\* a type node that is a single named reference to a collected declaration
\* other than the declaration own
CollectedReference(node, own) ==
    node.k = "ref" /\ node.n \in availableSymbols /\ node.n # own

\* the declared name of a member of a union: the name a reference names, the
\* codec of a primitive
DeclaredMember(node) == IF node.k = "ref" THEN <<BaseOf(node.n)>> ELSE <<"t." \o node.n>>

\* the text of a property's declared type node when it is a reference to a
\* collected declaration or a union of such references and primitives, <<>>
\* for every other node
DeclaredNames(node, own) ==
    IF CollectedReference(node, own) THEN DeclaredMember(node)
    ELSE IF /\ node.k = "union"
            /\ \A i \in 1..Len(node.ts) :
                   \/ CollectedReference(node.ts[i], own)
                   \/ node.ts[i].k = "kw" /\ node.ts[i].n \in {"string", "number", "boolean", "null", "undefined"}
         THEN <<"t.union", "(", "[">>
              \o Join([i \in 1..Len(node.ts) |-> DeclaredMember(node.ts[i])], ", ") \o <<"]", ")">>
    ELSE <<>>

\* the properties of the plain objects among the sorted declarations in D are
\* rendered with the declared names of their type nodes
RenderedWithDeclaredNames(D) ==
    \A i \in D :
        LET d == program[i]
        IN  (PlainObject(d.body) /\ IsBinding(FragmentOfDeclaration(i))) =>
                \A p \in Range(d.body.props) :
                    DeclaredNames(p.t, d.name) # <<>> =>
                        Occurs(<<p.name, ": ">> \o DeclaredNames(p.t, d.name), FragmentOfDeclaration(i))

\* the statement of C20 as written: whatever the newtype mode is
C20_Original == pc = "done" => RenderedWithDeclaredNames(Range(sorted))

\* C20: with newtypeMode "all", a property of a plain object whose declared type
\* node is a single named reference to another collected declaration, or a
\* union of such references and primitives, is rendered with the declared
\* names (a deduplicated variant by its base name) and not with the resolved
\* structure.
C20_ReferencePreserved ==
    (pc = "done" /\ config.newtypeMode = "all") => RenderedWithDeclaredNames(Range(sorted))

\* with `type T = string` and `type T2 = boolean`, the properties `t: T` and
\* `t2: T2 | null` of X were rendered as `t: T` and `t2: t.union([T2, t.null])`
C20_Witness ==
    /\ pc = "done" /\ config.newtypeMode = "all" /\ variantToBase = <<>>
    /\ program \in NominalPrograms
    /\ MapHas(newtypes, "T") /\ MapGet(newtypes, "T") = "string"
    /\ MapHas(newtypes, "T2") /\ MapGet(newtypes, "T2") = "boolean"
    /\ Occurs(<<"t", ": ", "T">>, FragmentOfDeclaration(1))
    /\ Occurs(<<"t2", ": ", "t.union", "(", "[", "T2", ", ", "t.null", "]", ")">>, FragmentOfDeclaration(1))

(***************************************************************************)
(* Properties of extractFlags                                              *)
(***************************************************************************)
\* the powers of two 2^k, k <= top, that are set bits of n, highest first
RECURSIVE SetBits(_, _)
SetBits(n, top) ==
    IF top < 0 THEN <<>>
    ELSE (IF (n \div (2 ^ top)) % 2 = 1 THEN <<2 ^ top>> ELSE <<>>) \o SetBits(n, top - 1)

RECURSIVE Sum(_)
Sum(s) == IF s = <<>> THEN 0 ELSE Head(s) + Sum(Tail(s))

\* C22: for every n with 0 <= n < 2^30, extractFlags(n) returns exactly the
\* powers of two that are set bits of n, each once, in strictly descending
\* order, so that they sum to n; extractFlags(0) returns the empty list
C22_SetBits ==
    (pc = "extracted" /\ flagWord < 2 ^ 30) =>
        /\ extracted = SetBits(flagWord, 29)
        /\ \A k \in 1..(Len(extracted) - 1) : extracted[k] > extracted[k + 1]
        /\ Sum(extracted) = flagWord
        /\ flagWord = 0 => extracted = <<>>

\* extractFlags(2^28) has returned the 28 values 2^27, ..., 2, 1, which sum to 2^28 - 1
C22_Witness ==
    /\ pc = "extracted" /\ flagWord = 2 ^ 28
    /\ Len(extracted) = MAX_FLAG_COUNT
    /\ extracted = SetBits(2 ^ 28 - 1, 27)

(***************************************************************************)
(* Determinism of the rendering                                            *)
(***************************************************************************)
\* the descriptors the branch of processType for type hands to processType
PartsOf(type) ==
    LET c == Classify(type)
    IN  CASE c \in {"union", "intersection"} -> Range(MemberTypes(type))
          [] c = "tuple" -> Range(TupleElements(type))
          [] c \in {"array", "numberIndexed"} -> {getNumberIndexType(type)}
          [] c = "record" -> Range(aliasTypeArguments(type))
          [] c = "stringIndexed" -> {getStringIndexType(type)}
          [] c = "object" -> {TypeOfProperty(p) : p \in {q \in Range(getPropertiesOfType(type)) : q.declared}}
          [] OTHER -> {}

\* the types of the collected declarations
DeclaredTypes == {TypeOfDeclaration(program[i]) : i \in {k \in Range(declarations) : program[k].name # ""}}

\* the descriptors the rendering of the collected declarations meets: their
\* types, the parts of these and the parts of the parts
Descriptors ==
    LET parts == UNION {PartsOf(t) : t \in DeclaredTypes}
    IN  DeclaredTypes \cup parts \cup UNION {PartsOf(t) : t \in parts}

\* contents of processedDeclarations: no declaration rendered, one rendered,
\* every one rendered, and the contents of the current state
ProcessedSets == {{}, availableSymbols, processedDeclarations} \cup {{n} : n \in availableSymbols}

\* the reference sets handleDeclaration hands to processType (the collected
\* names but the declaration's own), beside all the names and none
ReferenceSets == {{}, availableSymbols} \cup {availableSymbols \ {n} : n \in availableSymbols}

\* the fragment a call of handleDeclaration for the m-th sorted declaration
\* returns when processedDeclarations holds processed
RenderedAgain(m, processed) == handleDeclaration(program[sorted[m]], availableSymbols, processed)

\* C21: processType applied to the same type descriptor with the same reference
\* set returns identical text whatever processedDeclarations holds at the time
\* of each call, and whatever was rendered in between.  While the declarations
\* are rendered, the fragment the run stored for a declaration (rendered when
\* processedDeclarations held the names rendered before it) is the fragment a
\* call returns now, with the processedDeclarations of this point, with none
\* and with every name.  At the end, for every descriptor of the run (the
\* types of the declarations, their parts and the parts of these), every
\* reference set of the run and every two contents of processedDeclarations,
\* the two calls return the same outcome.
C21_Deterministic ==
    /\ pc \in {"render", "done"} =>
           \A m \in 1..Rendered :
               {RenderedAgain(m, P) : P \in {processedDeclarations, {}, availableSymbols}} = {FragmentAt(m)}
    /\ pc = "done" =>
           \A type \in Descriptors : \A S \in ReferenceSets :
               Cardinality({processType(type, S, P, {}) : P \in ProcessedSets}) = 1

\* three declarations were rendered, the first when processedDeclarations was
\* empty; its codec names another declaration and holds a nested descriptor,
\* and rendering it again with three names in processedDeclarations gives the
\* binding that was stored
C21_Witness ==
    /\ pc = "done" /\ Len(sorted) = 3
    /\ Cardinality(processedDeclarations) = 3
    /\ IsBinding(FragmentAt(1))
    /\ ReferencesIn(CodecOf(FragmentAt(1))) # {}
    /\ PartsOf(TypeOfDeclaration(program[sorted[1]])) # {}
    /\ RenderedAgain(1, processedDeclarations) = FragmentAt(1)
    /\ RenderedAgain(1, {}) = FragmentAt(1)

(***************************************************************************)
(* Properties of the declarations the Kahn loop leaves out                 *)
(***************************************************************************)
\* the k-th collected declaration is on a reference cycle or depends, directly
\* or through other declarations, on a declaration that is
OnOrBehindCycle(k) == k \in Reachable(k) \/ \E j \in Reachable(k) : j \in Reachable(j)

\* the Kahn loop emitted the k-th collected declaration
Dequeued(k) == SortedPos(k) \in 1..kahnCount

\* C23: the declarations the Kahn loop never dequeues, among them every
\* declaration on a reference cycle or depending on one, come after all the
\* Kahn-ordered declarations and keep their discovery order among themselves
C23_LeftoversInDiscoveryOrder ==
    Ordered =>
        /\ \A k \in 1..Len(declarations) :
               /\ OnOrBehindCycle(k) => ~Dequeued(k)
               /\ ~Dequeued(k) => SortedPos(k) > kahnCount
        /\ \A k, l \in 1..Len(declarations) :
               (~Dequeued(k) /\ ~Dequeued(l) /\ k < l) => SortedPos(k) < SortedPos(l)

\* A and B reference each other and are declared before C, which references
\* nothing: C is emitted by the Kahn loop, then A and B are appended in this order
C23_Witness ==
    /\ pc = "done" /\ Len(declarations) = 3 /\ DistinctNames
    /\ References(1, 2) /\ References(2, 1) /\ Reachable(3) = {}
    /\ kahnCount = 1
    /\ sorted = <<declarations[3], declarations[1], declarations[2]>>

(***************************************************************************)
(* Properties of the reference set of a declaration                        *)
(***************************************************************************)
\* the body of the declaration rendered m-th names the declaration itself
SelfReferential(m) ==
    LET d == program[sorted[m]] IN d.name # "" /\ Mentions(d.body, d.name)

\* C24: the text bound by `const X = ...` never contains X as a named
\* reference: the own name is out of the reference set at every depth of the
\* translation, so a type that refers to itself is expanded at the point of
\* self-reference, and a declaration whose expansion does not end has no
\* binding at all
C24_OwnNameExcluded ==
    pc \in {"render", "done"} =>
        \A m \in 1..Rendered :
            /\ IsBinding(FragmentAt(m)) => FragmentAt(m)[2] \notin Range(CodecOf(FragmentAt(m)))
            /\ SelfReferential(m) =>
                   \/ IsErrorMarker(FragmentAt(m))
                   \/ FragmentAt(m)[2] \notin Range(CodecOf(FragmentAt(m)))

\* A and B reference each other and C references itself: the codec of A names
\* B, the codec of B names A, and the expansion of C ends in the error marker
C24_Witness ==
    /\ pc = "done" /\ Len(sorted) = 3 /\ DistinctNames
    /\ \E a, b, c \in 1..3 :
          /\ FragmentAt(a)[2] = "A" /\ FragmentAt(b)[2] = "B"
          /\ IsBinding(FragmentAt(a)) /\ ReferencesIn(CodecOf(FragmentAt(a))) = {"B"}
          /\ IsBinding(FragmentAt(b)) /\ ReferencesIn(CodecOf(FragmentAt(b))) = {"A"}
          /\ SelfReferential(c) /\ FragmentAt(c) = <<"// Error: Failed to generate a codec for ", "C">>

(***************************************************************************)
(* Properties of the edges of the reference graph                          *)
(***************************************************************************)
\* every reference of the k-th collected declaration is to its own name or to
\* a name that is not collected
OnlySelfOrUncollected(k) ==
    \A r \in Range(NodeReferences(DeclAt(k).body)) :
        r = DeclAt(k).name \/ r \notin availableSymbols

\* every declaration of the name n references only itself or uncollected names
WithoutDependencies(n) ==
    \A k \in 1..Len(declarations) : DeclAt(k).name = n => OnlySelfOrUncollected(k)

\* the graph is built and the Kahn loop has not made its first iteration
Seeded == pc = "kahn" /\ sorted = <<>>

\* C25: a reference of a declaration to its own name and its references to
\* uncollected names create no edge: the graph holds collected names only and
\* no name among its own dependents, and a name whose declarations have no
\* other references starts with in-degree 0, is in the initial queue and is
\* emitted by the Kahn loop
C25_NoEdgeForSelfOrUncollected ==
    /\ pc \notin {"start", "build"} =>
           \A e \in Range(graph) :
               /\ e.key \in availableSymbols
               /\ Range(e.val) \subseteq availableSymbols \ {e.key}
    /\ Seeded =>
           \A n \in availableSymbols :
               WithoutDependencies(n) => (MapGet(inDegree, n) = 0 /\ Contains(queue, n))
    /\ Ordered =>
           \A n \in availableSymbols :
               WithoutDependencies(n) => \E p \in 1..kahnCount : program[sorted[p]].name = n

\* A references itself and the uncollected C, and B references A: A starts
\* with in-degree 0 and alone in the queue, and its only edge is the one to B
C25_Witness ==
    /\ Seeded /\ Len(declarations) = 2
    /\ NodeReferences(DeclAt(1).body) = <<"A", "C">>
    /\ "C" \notin availableSymbols
    /\ References(2, 1)
    /\ graph = <<[key |-> "A", val |-> <<"B">>], [key |-> "B", val |-> <<>>]>>
    /\ MapGet(inDegree, "A") = 0 /\ MapGet(inDegree, "B") = 1
    /\ queue = <<"A">>

(***************************************************************************)
(* Properties of declarations that share a name                            *)
(***************************************************************************)
\* the collected declarations named as the k-th one
Namesakes(k) == {l \in 1..Len(declarations) : DeclAt(l).name = DeclAt(k).name}

\* the k-th collected declaration is the last discovered of its name
LastOfName(k) == \A l \in Namesakes(k) : l <= k

\* a name is declared more than once
Shadowed(k) == DeclAt(k).name # "" /\ ~LastOfName(k)

\* the statement of C26 as written: of the declarations of a name only the
\* last discovered is in the ordered output
C26_Original ==
    Ordered => \A k \in 1..Len(declarations) : Shadowed(k) => ~Contains(sorted, declarations[k])

\* C26: when declarations share a name the ordering ends without an error and
\* returns every one of them; the last discovered is the declaration recorded
\* under the name and the only one the Kahn loop can place, and each earlier
\* one is appended after the Kahn-ordered declarations
C26_LastIsRecorded ==
    Ordered =>
        /\ Len(sorted) = Len(declarations)
        /\ \A k \in 1..Len(declarations) :
               /\ (DeclAt(k).name # "" /\ LastOfName(k)) =>
                      MapGet(nodeMap, DeclAt(k).name) = declarations[k]
               /\ Shadowed(k) => (~Dequeued(k) /\ SortedPos(k) > kahnCount)
        /\ \A p, q \in 1..kahnCount :
               program[sorted[p]].name = program[sorted[q]].name => p = q

\* interface A { b: B }, interface B {} and a second interface A: the Kahn
\* loop emits B and the second A, and the first A is appended; both
\* declarations of A are rendered
C26_Witness ==
    /\ pc = "done" /\ Len(declarations) = 3
    /\ DeclAt(1).name = "A" /\ DeclAt(2).name = "B" /\ DeclAt(3).name = "A"
    /\ References(1, 2) /\ Reachable(2) = {}
    /\ MapGet(nodeMap, "A") = declarations[3]
    /\ kahnCount = 2
    /\ sorted = <<declarations[2], declarations[3], declarations[1]>>
    /\ FragmentAt(2)[2] = "A" /\ FragmentAt(3)[2] = "A"

(***************************************************************************)
(* Properties of the kinds of statement collected                          *)
(***************************************************************************)
\* statement i is a type alias, an interface or a variable statement that
\* carries a type annotation
Eligible(i) ==
    \/ program[i].kind \in {"alias", "interface"}
    \/ program[i].kind = "var" /\ program[i].typed

\* C27: only type aliases, interfaces and const bindings with a type
\* annotation are collected; no other statement, in particular no variable
\* statement without a type annotation, is collected or gets a fragment
C27_OnlyEligibleCollected ==
    /\ \A i \in Range(declarations) : Eligible(i)
    /\ pc = "done" =>
           \A i \in 1..Len(program) :
               (program[i].name # "" /\ ~Eligible(i)) =>
                   \A m \in 1..Len(sorted) : FragmentAt(m)[2] # program[i].name

\* `const w = 1` alone was collected and rendered as `const w = t.literal(1)`
C27_Witness ==
    /\ pc = "done"
    /\ program = <<InferredConst, LibU>>
    /\ declarations = <<1>>
    /\ Text(output) = "const w = t.literal(1)"

(***************************************************************************)
(* Properties of the names the output uses                                 *)
(***************************************************************************)
\* C28: every name used as a named reference inside an emitted codec has a
\* binding in the same output; the name of a declaration whose fragment is
\* only an error marker is never used as a reference
C28_ReferencesAreBound ==
    pc = "done" =>
        \A m \in 1..Len(sorted) :
            \A name \in ReferencesIn(CodecOf(FragmentAt(m))) : Bound(name)

\* interface A { a: A } ends in the error marker, and the codec of
\* interface B { a: A } names A
C28_Witness ==
    /\ pc = "done" /\ Len(sorted) = 2 /\ DistinctNames
    /\ NodeReferences(DeclAt(1).body) = <<"A">>
    /\ NodeReferences(DeclAt(2).body) = <<"A">>
    /\ Text(output) = "// Error: Failed to generate a codec for A\n\nconst B = t.type({a: A})"
    /\ ~Bound("A")

(***************************************************************************)
(* Properties of the order the Kahn loop produces                          *)
(***************************************************************************)
\* the k-th collected declaration references another collected declaration
HasDependency(k) == \E j \in 1..Len(declarations) : References(k, j)

\* the position in the output of the dependency of k that is emitted last
RECURSIVE MaxOf(_)
MaxOf(S) == IF S = {} THEN 0
            ELSE LET x == CHOOSE y \in S : TRUE
                     m == MaxOf(S \ {x})
                 IN  IF x > m THEN x ELSE m

ReadyAt(k) == MaxOf({SortedPos(j) : j \in {i \in 1..Len(declarations) : References(k, i)}})

\* the output of topologicalSort is in first-in first-out order: the
\* declarations without dependency first, in discovery order, and a
\* declaration with dependencies after its last dependency, those that became
\* ready earlier first and those that became ready together in discovery order
FirstInFirstOut ==
    /\ \A k, l \in 1..Len(declarations) :
           /\ (~HasDependency(k) /\ HasDependency(l)) => SortedPos(k) < SortedPos(l)
           /\ (~HasDependency(k) /\ ~HasDependency(l) /\ k < l) => SortedPos(k) < SortedPos(l)
           /\ (HasDependency(k) /\ HasDependency(l) /\ Dequeued(k) /\ Dequeued(l)) =>
                  /\ ReadyAt(k) < SortedPos(k)
                  /\ ReadyAt(k) < ReadyAt(l) => SortedPos(k) < SortedPos(l)
                  /\ (ReadyAt(k) = ReadyAt(l) /\ k < l) => SortedPos(k) < SortedPos(l)
    /\ (\A k \in 1..Len(declarations) : ~HasDependency(k)) => sorted = declarations

\* every collected declaration has a name
AllNamed == \A k \in 1..Len(declarations) : DeclAt(k).name # ""

\* the statement of C29 as written: for every list of collected declarations
C29_Original == Ordered => FirstInFirstOut

\* C29: for collected declarations with pairwise distinct, non-empty names,
\* the declarations that reference no other collected declaration come first
\* in the output of topologicalSort, in discovery order, and a declaration
\* with dependencies is appended when its last outstanding dependency is
\* emitted, first in first out; when no declaration references another the
\* output order is the discovery order
C29_FirstInFirstOut == (Ordered /\ AllNamed /\ DistinctNames) => FirstInFirstOut

\* interface A { c: C }, interface B {}, interface C {}: B and C come first,
\* in discovery order, and A follows C
C29_Witness ==
    /\ pc = "done" /\ Len(declarations) = 3 /\ AllNamed /\ DistinctNames
    /\ References(1, 3) /\ ~References(1, 2)
    /\ ~HasDependency(2) /\ ~HasDependency(3)
    /\ kahnCount = 3
    /\ sorted = <<declarations[2], declarations[3], declarations[1]>>

(***************************************************************************)
(* Properties of the effects of handleDeclaration                          *)
(***************************************************************************)
\* the names of the bindings emitted so far
BoundSoFar == {FragmentAt(m)[2] : m \in {n \in 1..Rendered : IsBinding(FragmentAt(n))}}

\* C30: a name is in processedDeclarations only once its declaration was
\* translated: at every point of the rendering loop and at the end the set
\* holds exactly the names of the bindings emitted; a declaration that fails,
\* at whatever depth, leaves the error marker and no codec text; and
\* availableSymbols stays the set of the collected names
C30_EffectsOfHandleDeclaration ==
    /\ pc \in {"start", "build", "seed", "kahn"} => processedDeclarations = {}
    /\ pc \in {"render", "done"} =>
           /\ processedDeclarations = BoundSoFar
           /\ \A m \in 1..Rendered :
                  \/ IsBinding(FragmentAt(m)) /\ ~Throws(program[sorted[m]])
                  \/ /\ FragmentAt(m) = ErrorMarker(program[sorted[m]])
                     /\ Throws(program[sorted[m]])
    /\ pc # "start" => availableSymbols = SymbolNames(declarations)

\* X = { foo: string; bar: never[] } failed two levels down: its fragment is
\* the marker alone, and processedDeclarations holds P, Q and S but not X
C30_Witness ==
    /\ pc = "done"
    /\ program[1].body = PlainObj(<<Prop("foo", FALSE, Kw("string")), Prop("bar", FALSE, Arr(Kw("never")))>>)
    /\ FragmentOfX = <<"// Error: Failed to generate a codec for ", "X">>
    /\ processedDeclarations = {"P", "Q", "S"}
    /\ availableSymbols = {"X", "P", "Q", "S"}
====
